---- MODULE Spec2Model ----
(***************************************************************************)
(* Rate coefficient evaluation of Mutation++ (kinetics/RateManager.cpp,    *)
(* kinetics/RateLaws.h) and third-body weighting                           *)
(* (kinetics/ThirdBodyManager.h).                                          *)
(*                                                                         *)
(* Numbers.  The C++ doubles are modelled by exact integers:               *)
(*  - a temperature is a power of two, T = 2^k, in an arbitrary unit;      *)
(*  - std::log(T) is the exponent k, i.e. logarithms are in units of ln 2; *)
(*  - 1/T is InvScale/T, i.e. reciprocals are in units of 1/InvScale.      *)
(* All rate-law formulas used here are linear in these quantities, so the  *)
(* integer results are the exact values of the formulas in those units.    *)
(* Values of 2^MantBits and more are rounded as doubles are (fl); a double *)
(* that is not finite is the one value NonFinite.                          *)
(***************************************************************************)
EXTENDS Integers, Sequences, FiniteSets, TLC

\* ------------------------------------------------------------------ bounds

\* Largest number of reactions handed to the RateManager constructor.
MaxNr == 2
\* Temperatures of a state are 4^j for j in 0..MaxTLevel.
MaxTLevel == 1

\* Number of species of the mixture (the constructors' ns argument).
NumSpecies == 2
\* Largest number of reactions registered with the ThirdbodyManager.
MaxThirdbodies == 2
\* Threads that call into one manager instance.
NumThreads == 2
\* Longest list of species efficiencies of one third-body reaction.
MaxEffs == 2
\* Number of lumped species groups of the mixture (thermo.nSgroups()).
NumSgroups == 1
\* Length of the rates-of-progress array handed to multiplyThirdbodies.
NumRates == 2
\* Binary digits after the point of a concentration, weight or rate.
FracBits == 2
\* Binary digits of the significand of a double, in miniature.
MantBits == 8

\* ----------------------------------------------------------------- numbers

RECURSIVE Pow(_, _)
Pow(b, e) == IF e = 0 THEN 1 ELSE b * Pow(b, e - 1)

\* Temperatures a thermodynamic state can carry.
Temps == { Pow(4, j) : j \in 0..MaxTLevel }
MaxTemp == Pow(4, MaxTLevel)
\* Unit of the reciprocal temperature: 1/T is represented by InvScale/T.
InvScale == MaxTemp

\* std::sqrt on a perfect square.
Sqrt(x) == CHOOSE r \in 0..x : r * r = x
\* std::log in units of ln 2, on a power of two.
Log(x) == CHOOSE k \in 0..(2 * MaxTLevel) : Pow(2, k) = x
\* 1.0/x in units of 1/InvScale, on a power of two not above MaxTemp.
Inv(x) == InvScale \div x

RECURSIVE SumTo(_, _)
\* f[0] + ... + f[n-1]
SumTo(f, n) == IF n = 0 THEN 0 ELSE SumTo(f, n - 1) + f[n - 1]

\* |x|
Abs(x) == IF x < 0 THEN 0 - x ELSE x

\* The spacing of the doubles around a value of magnitude m: 1 below
\* 2^MantBits, doubling with every further binary digit.
RECURSIVE Ulp(_, _)
Ulp(m, u) == IF m < u * Pow(2, MantBits) THEN u ELSE Ulp(m, 2 * u)

\* The double nearest to the exact result x of one arithmetic operation,
\* ties to the even significand.  Values below 2^MantBits in magnitude are
\* exact, as are all values the managers compute.
fl(x) ==
    LET m  == Abs(x)
        u  == Ulp(m, 1)
        lo == (m \div u) * u
        r  == IF 2 * (m - lo) < u THEN lo
              ELSE IF 2 * (m - lo) > u THEN lo + u
              ELSE IF (lo \div u) % 2 = 0 THEN lo ELSE lo + u
    IN  IF x < 0 THEN 0 - r ELSE r

\* ------------------------------------------------------- reaction types

\* enum ReactionType, in declaration order; the value of a type is its
\* position minus one and MAX_REACTION_TYPES closes the enumeration.
ReactionTypeNames ==
    << "ASSOCIATIVE_IONIZATION", "DISSOCIATIVE_RECOMBINATION",
       "ASSOCIATIVE_DETACHMENT", "DISSOCIATIVE_ATTACHMENT",
       "DISSOCIATION_E", "RECOMBINATION_E",
       "DISSOCIATION_M", "RECOMBINATION_M",
       "IONIZATION_E", "ION_RECOMBINATION_E",
       "IONIZATION_M", "ION_RECOMBINATION_M",
       "ELECTRONIC_ATTACHMENT_M", "ELECTRONIC_DETACHMENT_M",
       "ELECTRONIC_ATTACHMENT_E", "ELECTRONIC_DETACHMENT_E",
       "EXCHANGE", "EXCITATION_M", "EXCITATION_E",
       "BND_BND_EMISSION" >>

MAX_REACTION_TYPES == Len(ReactionTypeNames)

ReactionTypes == 0..(MAX_REACTION_TYPES - 1)

TypeName(t) == ReactionTypeNames[t + 1]

\* --------------------------------------------------------------- selectors

\* A thermodynamic state: the three temperatures the selectors read.
States == [T : Temps, Te : Temps, Tv : Temps]

TSelector(state) == state.T

TeSelector(state) == state.Te

\* A Park selector that gives the translational temperature.
ParkSelector_asT(state) == state.T

ParkSelector(state) == Sqrt(state.T * state.Tv)

Selectors == {"TSelector", "TeSelector", "ParkSelector"}

\* TSelectorType().getT(state)
getT(sel, state) ==
    CASE sel = "TSelector"    -> TSelector(state)
      [] sel = "TeSelector"   -> TeSelector(state)
      [] sel = "ParkSelector" -> ParkSelector(state)

Pair(f, r) == [ForwardGroup |-> f, ReverseGroup |-> r]

\* The SELECT_RATE_LAWS table: the specialisations of RateSelector.
SelectRateLaws ==
    [ ASSOCIATIVE_IONIZATION     |-> Pair("TSelector",    "TeSelector"),
      DISSOCIATIVE_RECOMBINATION |-> Pair("TeSelector",   "TSelector"),
      ASSOCIATIVE_DETACHMENT     |-> Pair("TSelector",    "TeSelector"),
      DISSOCIATIVE_ATTACHMENT    |-> Pair("TeSelector",   "TSelector"),
      DISSOCIATION_E             |-> Pair("TeSelector",   "TeSelector"),
      RECOMBINATION_E            |-> Pair("TeSelector",   "TeSelector"),
      DISSOCIATION_M             |-> Pair("ParkSelector", "TSelector"),
      RECOMBINATION_M            |-> Pair("TSelector",    "ParkSelector"),
      IONIZATION_E               |-> Pair("TeSelector",   "TeSelector"),
      ION_RECOMBINATION_E        |-> Pair("TeSelector",   "TeSelector"),
      IONIZATION_M               |-> Pair("TSelector",    "TSelector"),
      ION_RECOMBINATION_M        |-> Pair("TSelector",    "TSelector"),
      ELECTRONIC_ATTACHMENT_M    |-> Pair("TeSelector",   "TSelector"),
      ELECTRONIC_DETACHMENT_M    |-> Pair("TSelector",    "TeSelector"),
      ELECTRONIC_ATTACHMENT_E    |-> Pair("TeSelector",   "TeSelector"),
      ELECTRONIC_DETACHMENT_E    |-> Pair("TeSelector",   "TeSelector"),
      EXCHANGE                   |-> Pair("TSelector",    "TSelector"),
      EXCITATION_M               |-> Pair("TSelector",    "TSelector"),
      EXCITATION_E               |-> Pair("TeSelector",   "TeSelector") ]

\* template <int reactionType> struct RateSelector: the specialisation of
\* the table when there is one, the primary template (T, T) otherwise.
RateSelector(reactionType) ==
    IF TypeName(reactionType) \in DOMAIN SelectRateLaws
    THEN SelectRateLaws[TypeName(reactionType)]
    ELSE Pair("TSelector", "TSelector")

\* is_same comparing the rate-law class of the two groups only.
is_same_byKind(T, U) == T[1] = U[1]

is_same(T, U) == T = U

\* --------------------------------------------------------------- rate laws

\* A rate law is [kind, c]: its class and its coefficients in member order.
\*   Arrhenius   <<m_lnA, m_n, m_temp>>
\*   rationalExp <<m_n, m_temp, m_a0, m_a1, m_a2, m_b0, m_b1, m_b2, m_b3>>
\*   constRate   <<m_lnA>>
\*   expRat33    <<m_a0, m_a1, m_a2, m_a3, m_b0, m_b1, m_b2>>
Law(kind, c) == [kind |-> kind, c |-> c]

\* Arrhenius::getLnRate with the activation term added.
Arrhenius_getLnRate_plusTa(law, lnT, invT) ==
    fl(fl(law.c[1] + fl(law.c[2] * lnT)) + fl(law.c[3] * invT))

\* Arrhenius::getLnRate(lnT, invT): m_lnA + m_n * lnT - m_temp * invT, each
\* operation rounded to a double.
Arrhenius_getLnRate(law, lnT, invT) ==
    fl(fl(law.c[1] + fl(law.c[2] * lnT)) - fl(law.c[3] * invT))

\* constRate::getLnRate()
constRate_getLnRate(law) == law.c[1]

\* The doubles that are not finite (+inf, -inf and NaN), as one value that
\* no finite result of the model reaches.
NonFinite == 1000000

\* x + y and x - y of doubles: a non-finite operand gives a non-finite result.
Plus(x, y) == IF x = NonFinite \/ y = NonFinite THEN NonFinite ELSE x + y

Minus(x, y) == IF x = NonFinite \/ y = NonFinite THEN NonFinite ELSE x - y

\* std::log of a quotient p/q: the exponent when p/q is a power of two
\* (units of ln 2); a division by zero gives an infinity or a NaN and the
\* logarithm of 0 an infinity, without a trap.
LogRatio(p, q) ==
    IF q = 0 \/ p = 0 THEN NonFinite ELSE
    CHOOSE k \in (-6 * MaxTLevel - 2)..(6 * MaxTLevel + 2) :
        IF k >= 0 THEN p = q * Pow(2, k) ELSE p * Pow(2, -k) = q

\* rationalExp::getLnRate answering 0 when the denominator is zero.
rationalExp_getLnRate_guarded(law, lnT, invT, T, sqT) ==
    LET den == law.c[6] + law.c[7] * T + law.c[8] * sqT + law.c[9] * sqT * T
    IN  IF den = 0 THEN 0
        ELSE Plus(law.c[1] * lnT - law.c[2] * invT,
                  LogRatio(law.c[3] + law.c[4] * T + law.c[5] * sqT, den))

\* rationalExp::getLnRate(lnT, invT, T, sqT)
rationalExp_getLnRate(law, lnT, invT, T, sqT) ==
    Plus(law.c[1] * lnT - law.c[2] * invT,
         LogRatio(law.c[3] + law.c[4] * T + law.c[5] * sqT,
                  law.c[6] + law.c[7] * T + law.c[8] * sqT + law.c[9] * sqT * T))

\* expRat33::getLnRate with a quadratic denominator.
expRat33_getLnRate_quadratic(law, T) ==
    LET num == law.c[1] + (law.c[2] + (law.c[3] + law.c[4] * T) * T) * T
        den == law.c[5] + (law.c[6] + law.c[7] * T) * T
    IN  IF den = 0 THEN NonFinite ELSE num \div den

\* expRat33::getLnRate(T): the quotient of the two polynomials in Horner
\* form, the division rounded to a whole number; no std::log is taken.
expRat33_getLnRate(law, T) ==
    LET num == law.c[1] + (law.c[2] + (law.c[3] + law.c[4] * T) * T) * T
        den == law.c[5] + (law.c[6] + (law.c[7] + T) * T) * T
    IN  IF den = 0 THEN NonFinite ELSE num \div den

\* ClassifiedKinds: the classes RateManager::addReaction accepts.
ClassifiedKinds == {"Arrhenius", "constRate", "rationalExp"}

Kinds == ClassifiedKinds \cup {"expRat33"}

\* ------------------------------------------------------------ reactions

\* A reaction as the manager reads it: type(), isReversible(), rateLaw() and
\* the stoichiometric coefficient of every species (products positive).
Reaction(type, rev, law, nu) ==
    [type |-> type, isReversible |-> rev, rateLaw |-> law, nu |-> nu]

\* ------------------------------------------------- rate law group collection

\* A group is RateLawGroup1T<kind, selector>; its key is <<kind, selector>>.
GroupKeys == ClassifiedKinds \X Selectors

\* The order in which the collection visits its groups.
GroupOrder ==
    << <<"Arrhenius", "TSelector">>,   <<"Arrhenius", "TeSelector">>,
       <<"Arrhenius", "ParkSelector">>,
       <<"rationalExp", "TSelector">>, <<"rationalExp", "TeSelector">>,
       <<"rationalExp", "ParkSelector">>,
       <<"constRate", "TSelector">>,   <<"constRate", "TeSelector">>,
       <<"constRate", "ParkSelector">> >>

\* A group: its (slot, rate law) entries, the reactions whose reverse rate
\* it corrects, and the temperature of its last evaluation (0: none yet).
EmptyGroup == [m_rates |-> << >>, m_reacs |-> << >>, m_t |-> 0]

EmptyGroups == [k \in GroupKeys |-> EmptyGroup]

\* RateLawGroupCollection::addRateCoefficient<GroupType>(rxn, p_rate)
Groups_addRateCoefficient(groups, GroupType, slot, p_rate) ==
    [groups EXCEPT ![GroupType].m_rates =
        Append(@, [first |-> slot, second |-> p_rate])]

\* RateLawGroupCollection::addReaction<GroupType>(rxn, reaction)
Groups_addReaction(groups, GroupType, rxn, reaction) ==
    [groups EXCEPT ![GroupType].m_reacs =
        Append(@, [rxn |-> rxn, nu |-> reaction.nu])]

\* ------------------------------------------------------------- RateManager

\* The members addReaction works on, with the trace of addRate
\* instantiations (calls) and the error thrown, if any.
Manager(nr, groups, to_copy, irr, trace, err) ==
    [m_nr |-> nr, m_rate_groups |-> groups, m_to_copy |-> to_copy,
     m_irr |-> irr, calls |-> trace, error |-> err]

\* addRate with the reverse entry at slot rxn, without the m_nr offset.
addRate_noOffset(mgr, ForwardGroup, ReverseGroup, rxn, reaction) ==
    LET fwd == Groups_addRateCoefficient(
                   mgr.m_rate_groups, ForwardGroup, rxn, reaction.rateLaw)
        trace == Append(mgr.calls,
                    [rxn |-> rxn, fwd |-> ForwardGroup, rev |-> ReverseGroup])
    IN  IF reaction.isReversible
        THEN LET same == is_same(ForwardGroup, ReverseGroup)
                 rates == IF same THEN fwd
                          ELSE Groups_addRateCoefficient(
                                   fwd, ReverseGroup, rxn,
                                   reaction.rateLaw)
             IN  [mgr EXCEPT
                    !.m_to_copy = IF same THEN Append(@, rxn) ELSE @,
                    !.m_rate_groups =
                        Groups_addReaction(rates, ReverseGroup, rxn, reaction),
                    !.calls = trace]
        ELSE [mgr EXCEPT !.m_rate_groups = fwd,
                         !.m_irr = Append(@, rxn),
                         !.calls = trace]

\* addRate that copies and also inserts a reverse entry.
addRate_copyAndInsert(mgr, ForwardGroup, ReverseGroup, rxn, reaction) ==
    LET fwd == Groups_addRateCoefficient(
                   mgr.m_rate_groups, ForwardGroup, rxn, reaction.rateLaw)
        trace == Append(mgr.calls,
                    [rxn |-> rxn, fwd |-> ForwardGroup, rev |-> ReverseGroup])
    IN  IF reaction.isReversible
        THEN LET same == is_same(ForwardGroup, ReverseGroup)
                 rates == Groups_addRateCoefficient(
                              fwd, ReverseGroup, rxn + mgr.m_nr,
                              reaction.rateLaw)
             IN  [mgr EXCEPT
                    !.m_to_copy = IF same THEN Append(@, rxn) ELSE @,
                    !.m_rate_groups =
                        Groups_addReaction(rates, ReverseGroup, rxn, reaction),
                    !.calls = trace]
        ELSE [mgr EXCEPT !.m_rate_groups = fwd,
                         !.m_irr = Append(@, rxn),
                         !.calls = trace]

\* addRate without the isReversible test.
addRate_ignoreReversible(mgr, ForwardGroup, ReverseGroup, rxn, reaction) ==
    LET fwd == Groups_addRateCoefficient(
                   mgr.m_rate_groups, ForwardGroup, rxn, reaction.rateLaw)
        trace == Append(mgr.calls,
                    [rxn |-> rxn, fwd |-> ForwardGroup, rev |-> ReverseGroup])
    IN  IF TRUE
        THEN LET same == is_same(ForwardGroup, ReverseGroup)
                 rates == IF same THEN fwd
                          ELSE Groups_addRateCoefficient(
                                   fwd, ReverseGroup, rxn + mgr.m_nr,
                                   reaction.rateLaw)
             IN  [mgr EXCEPT
                    !.m_to_copy = IF same THEN Append(@, rxn) ELSE @,
                    !.m_rate_groups =
                        Groups_addReaction(rates, ReverseGroup, rxn, reaction),
                    !.calls = trace]
        ELSE [mgr EXCEPT !.m_rate_groups = fwd,
                         !.m_irr = Append(@, rxn),
                         !.calls = trace]

\* RateManager::addRate<ForwardGroup, ReverseGroup>(rxn, reaction)
addRate(mgr, ForwardGroup, ReverseGroup, rxn, reaction) ==
    LET fwd == Groups_addRateCoefficient(
                   mgr.m_rate_groups, ForwardGroup, rxn, reaction.rateLaw)
        trace == Append(mgr.calls,
                    [rxn |-> rxn, fwd |-> ForwardGroup, rev |-> ReverseGroup])
    IN  IF reaction.isReversible
        THEN LET same == is_same(ForwardGroup, ReverseGroup)
                 rates == IF same THEN fwd
                          ELSE Groups_addRateCoefficient(
                                   fwd, ReverseGroup, rxn + mgr.m_nr,
                                   reaction.rateLaw)
             IN  [mgr EXCEPT
                    !.m_to_copy = IF same THEN Append(@, rxn) ELSE @,
                    !.m_rate_groups =
                        Groups_addReaction(rates, ReverseGroup, rxn, reaction),
                    !.calls = trace]
        ELSE [mgr EXCEPT !.m_rate_groups = fwd,
                         !.m_irr = Append(@, rxn),
                         !.calls = trace]

\* The body shared by selectRate<N> (after its type test) and selectRate<0>:
\* the rate-law class picks the group class, RateSelector<N> the selectors.
selectRateBody(N, mgr, rxn, reaction) ==
    LET kind == reaction.rateLaw.kind
        FWD == << kind, RateSelector(N).ForwardGroup >>
        REV == << kind, RateSelector(N).ReverseGroup >>
    IN  IF kind = "Arrhenius" THEN addRate(mgr, FWD, REV, rxn, reaction)
        ELSE IF kind = "rationalExp" THEN addRate(mgr, FWD, REV, rxn, reaction)
        ELSE IF kind = "constRate" THEN addRate(mgr, FWD, REV, rxn, reaction)
        ELSE mgr

RECURSIVE selectRate(_, _, _, _)
\* RateManager::selectRate<NReactionTypes>(rxn, reaction); selectRate<0>
\* does not test the reaction type.
selectRate(NReactionTypes, mgr, rxn, reaction) ==
    IF NReactionTypes = 0
    THEN selectRateBody(0, mgr, rxn, reaction)
    ELSE IF reaction.type = NReactionTypes
         THEN selectRateBody(NReactionTypes, mgr, rxn, reaction)
         ELSE selectRate(NReactionTypes - 1, mgr, rxn, reaction)

\* addReaction starting the recursion one type below the last.
addReaction_skipLastType(mgr, rxn, reaction) ==
    IF \/ reaction.rateLaw.kind = "Arrhenius"
       \/ reaction.rateLaw.kind = "constRate"
       \/ reaction.rateLaw.kind = "rationalExp"
    THEN selectRate(MAX_REACTION_TYPES - 2, mgr, rxn, reaction)
    ELSE [mgr EXCEPT !.error = "InvalidInputError"]

\* addReaction without the test of the rate-law class.
addReaction_noClassTest(mgr, rxn, reaction) ==
    selectRate(MAX_REACTION_TYPES - 1, mgr, rxn, reaction)

\* RateManager::addReaction(rxn, reaction)
addReaction(mgr, rxn, reaction) ==
    IF \/ reaction.rateLaw.kind = "Arrhenius"
       \/ reaction.rateLaw.kind = "constRate"
       \/ reaction.rateLaw.kind = "rationalExp"
    THEN selectRate(MAX_REACTION_TYPES - 1, mgr, rxn, reaction)
    ELSE [mgr EXCEPT !.error = "InvalidInputError"]

\* ------------------------------------------------------------------ memory

\* The manager's storage block with the trace of the accesses made to it
\* by the update in progress: log entries are [phase, op, slot].
Mem(blk, lg) == [block |-> blk, log |-> lg]

Store(mem, phase, slot, val) ==
    [block |-> [mem.block EXCEPT ![slot] = val],
     log   |-> Append(mem.log, [phase |-> phase, op |-> "w", slot |-> slot])]

Load(mem, phase, slot) ==
    [mem EXCEPT !.log = Append(@, [phase |-> phase, op |-> "r", slot |-> slot])]

\* ------------------------------------------------------ group evaluation

\* RateLawType::getLnRate with the scalars of a group at temperature t.
getLnRate(law, t) ==
    CASE law.kind = "Arrhenius" ->
            Arrhenius_getLnRate(law, Log(t), Inv(t))
      [] law.kind = "rationalExp" ->
            rationalExp_getLnRate(law, Log(t), Inv(t), t, t * t)
      [] law.kind = "constRate" ->
            constRate_getLnRate(law)

RECURSIVE lnForwardRateCoefficients(_, _, _, _, _)
\* RateLawGroup1T::lnForwardRateCoefficients: entries j.. of m_rates, all
\* at the one temperature t of the group, each written to its own slot.
lnForwardRateCoefficients(m_rates, j, t, mem, p_lnk) ==
    IF j > Len(m_rates) THEN mem
    ELSE lnForwardRateCoefficients(m_rates, j + 1, t,
            Store(mem, "evaluate", p_lnk + m_rates[j].first,
                  getLnRate(m_rates[j].second, t)),
            p_lnk)

GroupExists(group) == group.m_rates # << >> \/ group.m_reacs # << >>

RECURSIVE logOfRateCoefficients(_, _, _, _, _)
\* RateLawGroupCollection::logOfRateCoefficients(state, p_lnk): every group
\* from position g of the visiting order on; returns the groups (with their
\* temperature) and the memory.
logOfRateCoefficients(groups, g, state, mem, p_lnk) ==
    IF g > Len(GroupOrder) THEN [groups |-> groups, mem |-> mem]
    ELSE LET key == GroupOrder[g]
             t   == getT(key[2], state)
         IN  IF GroupExists(groups[key])
             THEN logOfRateCoefficients(
                      [groups EXCEPT ![key].m_t = t], g + 1, state,
                      lnForwardRateCoefficients(
                          groups[key].m_rates, 1, t, mem, p_lnk),
                      p_lnk)
             ELSE logOfRateCoefficients(groups, g + 1, state, mem, p_lnk)

\* Thermodynamics::speciesSTGOverRT: the Gibbs energy over RT of species s
\* at temperature t (an enthalpy term in 1/T and an entropy term in ln T).
SpeciesGibbsOverRT(s, t) == (s + 1) * Inv(t) - (3 * s + 1) * Log(t)

RECURSIVE speciesSTGOverRT(_, _, _, _, _)
\* Fills p_g[s..ns-1] with the species Gibbs energies at temperature t.
speciesSTGOverRT(t, s, ns, mem, p_g) ==
    IF s >= ns THEN mem
    ELSE speciesSTGOverRT(t, s + 1, ns,
            Store(mem, "correct", p_g + s, SpeciesGibbsOverRT(s, t)), p_g)

RECURSIVE LoadAll(_, _, _, _)
LoadAll(mem, s, ns, p_g) ==
    IF s >= ns THEN mem
    ELSE LoadAll(Load(mem, "correct", p_g + s), s + 1, ns, p_g)

\* ln(Keq) of a reaction from the Gibbs energies in p_g: minus the
\* stoichiometric sum of G_s/RT.
LnKeq(nu, ns, mem, p_g) ==
    0 - SumTo([s \in 0..(ns - 1) |-> nu[s] * mem.block[p_g + s]], ns)

RECURSIVE Group_subtractLnKeq(_, _, _, _, _, _)
\* RateLawGroup::subtractLnKeq(ns, p_g, p_r): entries j.. of m_reacs.
Group_subtractLnKeq(m_reacs, j, ns, mem, p_g, p_r) ==
    IF j > Len(m_reacs) THEN mem
    ELSE LET slot == p_r + m_reacs[j].rxn
             rd   == Load(LoadAll(mem, 0, ns, p_g), "correct", slot)
         IN  Group_subtractLnKeq(m_reacs, j + 1, ns,
                Store(rd, "correct", slot,
                      Minus(rd.block[slot], LnKeq(m_reacs[j].nu, ns, rd, p_g))),
                p_g, p_r)

RECURSIVE subtractLnKeq(_, _, _, _, _, _)
\* RateLawGroupCollection::subtractLnKeq(thermo, p_g, p_r): for every group,
\* the Gibbs energies at the group's temperature, then the subtraction.
subtractLnKeq(groups, g, ns, mem, p_g, p_r) ==
    IF g > Len(GroupOrder) THEN mem
    ELSE LET group == groups[GroupOrder[g]]
         IN  IF GroupExists(group)
             THEN subtractLnKeq(groups, g + 1, ns,
                      Group_subtractLnKeq(group.m_reacs, 1, ns,
                          speciesSTGOverRT(group.m_t, 0, ns, mem, p_g),
                          p_g, p_r),
                      p_g, p_r)
             ELSE subtractLnKeq(groups, g + 1, ns, mem, p_g, p_r)

RECURSIVE copyRates_byPosition(_, _, _, _, _)
\* The copy loop using the position in m_to_copy as the reaction index.
copyRates_byPosition(m_to_copy, j, mem, p_lnkf, p_lnkb) ==
    IF j > Len(m_to_copy) THEN mem
    ELSE LET index == j - 1
             rd    == Load(mem, "copy", p_lnkf + index)
         IN  copyRates_byPosition(m_to_copy, j + 1,
                Store(rd, "copy", p_lnkb + index, rd.block[p_lnkf + index]),
                p_lnkf, p_lnkb)

RECURSIVE copyRates(_, _, _, _, _)
\* The copy loop of RateManager::update over m_to_copy from position j.
copyRates(m_to_copy, j, mem, p_lnkf, p_lnkb) ==
    IF j > Len(m_to_copy) THEN mem
    ELSE LET index == m_to_copy[j]
             rd    == Load(mem, "copy", p_lnkf + index)
         IN  copyRates(m_to_copy, j + 1,
                Store(rd, "copy", p_lnkb + index, rd.block[p_lnkf + index]),
                p_lnkf, p_lnkb)

\* update without its copy loop.
update_noCopy == << "evaluate", "correct" >>

\* update with the subtraction before the copy loop.
update_correctBeforeCopy == << "evaluate", "correct", "copy" >>

\* The statements of RateManager::update, in program order.
update == << "evaluate", "copy", "correct" >>

\* -------------------------------------------------------- ThirdbodyManager

\* Concentrations, efficiencies and rates of progress are fixed-point
\* numbers with FracBits binary digits: the double x is the integer x * One.
One == Pow(2, FracBits)

Half == One \div 2

\* The product of two doubles.
FMul(a, b) == (a * b) \div One

\* PartialThirdbodyEffs(rxn, effs, gEffs); an efficiency is a pair
\* [first |-> index, second |-> weight].
PartialThirdbodyEffs(rxn, effs, gEffs) ==
    [m_rxn |-> rxn, m_effs |-> effs, m_groupEffs |-> gEffs]

\* addReaction keeping one entry per reaction index: a later call replaces
\* the entry of an index registered before.
ThirdbodyManager_addReaction_unique(effsList, rxn, effs, gEffs) ==
    IF \E j \in DOMAIN effsList : effsList[j].m_rxn = rxn
    THEN [j \in DOMAIN effsList |->
             IF effsList[j].m_rxn = rxn
             THEN PartialThirdbodyEffs(rxn, effs, gEffs) ELSE effsList[j]]
    ELSE Append(effsList, PartialThirdbodyEffs(rxn, effs, gEffs))

\* ThirdbodyManager::addReaction(rxn, effs, gEffs): the list m_effs it leaves.
ThirdbodyManager_addReaction(effsList, rxn, effs, gEffs) ==
    Append(effsList, PartialThirdbodyEffs(rxn, effs, gEffs))

RECURSIVE addEfficiencies(_, _, _, _)
\* for (iter ...) sum += p[iter->first] * iter->second, from position j.
addEfficiencies(effs, j, sum, p) ==
    IF j > Len(effs) THEN sum
    ELSE addEfficiencies(effs, j + 1,
            sum + FMul(p[effs[j].first], effs[j].second), p)

\* multiplyEfficiencies multiplying every rate of progress by the entry's sum.
multiplyEfficiencies_allRates(entry, sum, ps, pg, pr) ==
    LET total == addEfficiencies(entry.m_groupEffs, 1,
                     addEfficiencies(entry.m_effs, 1, sum, ps), pg)
    IN  [r \in DOMAIN pr |-> FMul(pr[r], total)]

\* PartialThirdbodyEffs::multiplyEfficiencies(sum, p_s, p_g, p_r); sum is
\* passed by value and the result is the array p_r.
multiplyEfficiencies(entry, sum, ps, pg, pr) ==
    LET total == addEfficiencies(entry.m_groupEffs, 1,
                     addEfficiencies(entry.m_effs, 1, sum, ps), pg)
    IN  [pr EXCEPT ![entry.m_rxn] = FMul(@, total)]

\* The species of lumped group g.
SgroupMembers(g) == { s \in 0..(NumSpecies - 1) : s >= g }

RECURSIVE SumOver(_, _)
SumOver(f, S) ==
    IF S = {} THEN 0
    ELSE LET x == CHOOSE y \in S : TRUE IN f[x] + SumOver(f, S \ {x})

\* Thermodynamics::sumSgroupMembersValues(p_s, p_g): the result is p_g.
sumSgroupMembersValues(ps) ==
    [g \in 0..(NumSgroups - 1) |-> SumOver(ps, SgroupMembers(g))]

RECURSIVE multiplyAll(_, _, _, _, _, _)
\* The loop of multiplyThirdbodies over m_effs from position j.
multiplyAll(effs, j, sum, ps, pg, pr) ==
    IF j > Len(effs) THEN pr
    ELSE multiplyAll(effs, j + 1, sum, ps, pg,
            multiplyEfficiencies(effs[j], sum, ps, pg, pr))

\* multiplyThirdbodies started from the total concentration (the statement
\* the source keeps as a comment).
multiplyThirdbodies_fromTotal(effs, ps, pr) ==
    LET sum == SumOver(ps, 0..(NumSpecies - 1))
        pg  == sumSgroupMembersValues(ps)
    IN  [p_s |-> ps, p_g |-> pg,
         p_r |-> multiplyAll(effs, 1, sum, ps, pg, pr)]

\* ThirdbodyManager::multiplyThirdbodies(p_s, p_r): the concentrations (read
\* only), the scratch buffer and the rates of progress it leaves.
multiplyThirdbodies(effs, ps, pr) ==
    LET sum == 0
        pg  == sumSgroupMembersValues(ps)
    IN  [p_s |-> ps, p_g |-> pg,
         p_r |-> multiplyAll(effs, 1, sum, ps, pg, pr)]

\* Efficiency lists, concentration vectors and rate arrays of the calls.
Eff(index, weight) == [first |-> index, second |-> weight]

SpeciesEffs == { Eff(s, w) : s \in 0..(NumSpecies - 1), w \in { Half, One } }

GroupEffs == { Eff(g, One) : g \in 0..(NumSgroups - 1) }

SpeciesEffLists == UNION { [1..n -> SpeciesEffs] : n \in 0..MaxEffs }

GroupEffLists == { << >> } \cup { << e >> : e \in GroupEffs }

Concentrations == [0..(NumSpecies - 1) -> { One, 2 * One }]

RatesOfProgress ==
    { [r \in 0..(NumRates - 1) |-> IF r = k THEN 5 * One ELSE 0 - 3 * One] :
        k \in 0..(NumRates - 1) }

\* ------------------------------------------------------------------ inputs

\* Stoichiometries: one reactant species a and one product species b.
Nu(a, b) ==
    [s \in 0..(NumSpecies - 1) |-> IF s = a THEN -1 ELSE IF s = b THEN 1 ELSE 0]

\* One rate law of each class.
Laws ==
    { Law("Arrhenius",   << 3, 1, 2 >>),
      Law("constRate",   << 7 >>),
      Law("rationalExp", << 1, 1, 0, 1, 0, 1, 0, 0, 0 >>),
      Law("expRat33",    << 1, 0, 0, 0, 1, 0, 0 >>) }

\* One reaction type for each pair of selectors the table can resolve.
UpdateTypes ==
    { t \in ReactionTypes :
        TypeName(t) \in { "ASSOCIATIVE_IONIZATION", "DISSOCIATIVE_RECOMBINATION",
                          "DISSOCIATION_E", "DISSOCIATION_M",
                          "RECOMBINATION_M", "BND_BND_EMISSION" } }

\* Reactions of the update specification.
UpdatePool ==
    { Reaction(t, TRUE, law, nu) :
        t \in UpdateTypes, law \in Laws, nu \in { Nu(0, 1), Nu(1, 0) } }
    \cup { Reaction(t, FALSE, law, Nu(0, 1)) : t \in UpdateTypes, law \in Laws }

\* Reactions of the construction specification: every reaction type.
ConstructPool ==
    { Reaction(t, rev, law, Nu(0, 1)) :
        t \in ReactionTypes, rev \in BOOLEAN, law \in Laws }

ReactionLists(pool) == UNION { [1..n -> pool] : n \in 0..MaxNr }

\* ------------------------------------------------------------------- state

VARIABLES
    reactions,      \* the constructor's reaction list
    m_ns, m_nr,
    m_rate_groups, m_to_copy, m_irr,
    mp_lnkf, mp_lnkb, mp_gibbs,   \* offsets into block, NULL before allocation
    block,          \* the one storage block
    pc,             \* "construct", "failed", "idle" or "update"
    i,              \* the constructor's loop variable
    error,          \* the exception that left the constructor, "" if none
    calls,          \* trace of the addRate instantiations
    thermo,         \* the state handed to the update in progress or last run
    repeated,       \* whether that update got the state of the update before it
    step,           \* the statement of update to run next, 0 outside update
    log,            \* trace of the memory accesses of that update
    updated,        \* whether an update has returned
    m_effs,         \* ThirdbodyManager: the managed reactions
    registered,     \* trace of the ThirdbodyManager::addReaction calls
    p_g,            \* ThirdbodyManager: the group concentration scratch buffer
    p_s,            \* the concentrations the last multiplyThirdbodies call left
    p_s_in,         \* the concentrations that call was given
    p_r,            \* the rates of progress that call left
    p_r_in,         \* the rates of progress that call was given
    multiplied,     \* whether multiplyThirdbodies has been called
    callers,        \* the threads calling update on the one RateManager
    tbcallers,      \* the threads calling multiplyThirdbodies on the one ThirdbodyManager
    rl_law,         \* a rate law object on its own
    rl_T,           \* the temperature of its last evaluation, 0 before any
    rl_lnRate,      \* what getLnRate returned then
    rl_prev         \* the evaluation before that one: its temperature and result

rmvars == << reactions, m_ns, m_nr, m_rate_groups, m_to_copy, m_irr,
             mp_lnkf, mp_lnkb, mp_gibbs, block, pc, i, error, calls,
             thermo, repeated, step, log, updated >>

tbvars == << m_effs, registered, p_g, p_s, p_s_in, p_r, p_r_in, multiplied >>

rvars == << callers, tbcallers >>

lvars == << rl_law, rl_T, rl_lnRate, rl_prev >>

VARIABLES
    descriptor,       \* SpeciesListDescriptor: the text the constructor works on
    d_pc,             \* the constructor's position, "none" when no descriptor is built
    d_i,              \* separateSpeciesNames: the loop variable i
    in_quotes,        \* separateSpeciesNames: the state of its state machine
    name,             \* separateSpeciesNames: the name being accumulated
    quoted,           \* for every name appended, whether it was appended in quotes
    m_species_names,
    m_element_names,
    m_gases, m_solids, m_liquids,
    m_expand_states,  \* the levelMap, as the sequence of its entries in key order
    gsNames,          \* the constructor's set of ground-state names seen
    it,               \* the constructor's iterator over m_species_names
    rit1, rit2,       \* the iterators of the duplicate/conflict scan
    gsName,           \* the scan's ground-state name
    underflow,        \* whether an iterator was decremented at begin()
    d_error,          \* the exception that left the constructor, "" if none
    input, output, missing,   \* order: its three arguments
    ordered_list,     \* order: its local list
    o_i,              \* order: the loop variable of its first loop
    ncond,            \* order: the counter of its last loop
    o_pc,             \* order: the statement to run next, "none" outside order
    input_in,         \* what input held on entry
    output_in,        \* what output held on entry
    o_log             \* the steps of order run so far, each with the list it left

dvars == << descriptor, d_pc, d_i, in_quotes, name, quoted, m_species_names,
            m_element_names, m_gases, m_solids, m_liquids, m_expand_states,
            gsNames, it, rit1, rit2, gsName, underflow, d_error >>

ovars == << input, output, missing, ordered_list, o_i, ncond, o_pc,
            input_in, output_in, o_log >>

vars == << rmvars, tbvars, rvars, lvars, dvars, ovars >>

npos == 0

\* A SpeciesListDescriptor about to be constructed from one of `texts`, the
\* constructor at `start`: its member initialisers and empty members, the
\* constructor's locals, and no call of order.
InitSpeciesList(texts, start) ==
    /\ descriptor \in texts
    /\ d_pc = start
    /\ m_gases = FALSE /\ m_solids = FALSE /\ m_liquids = FALSE
    /\ m_species_names = << >>
    /\ m_element_names = {}
    /\ m_expand_states = << >>
    /\ d_i = 0
    /\ in_quotes = FALSE
    /\ name = << >>
    /\ quoted = << >>
    /\ gsNames = {}
    /\ it = 1
    /\ rit1 = 0 /\ rit2 = 0
    /\ gsName = << >>
    /\ underflow = FALSE
    /\ d_error = ""
    /\ input = << >> /\ output = << >> /\ missing = << >>
    /\ ordered_list = << >>
    /\ o_i = 0
    /\ ncond = 0
    /\ o_pc = "none"
    /\ input_in = << >> /\ output_in = << >>
    /\ o_log = << >>

\* No species list descriptor.
InitNoDescriptor == InitSpeciesList({ << >> }, "none")

NULL == -1

NoState == [T |-> 0, Te |-> 0, Tv |-> 0]

\* The constructor's member initialisers, before its loop.
InitManager(pool) ==
    /\ reactions \in ReactionLists(pool)
    /\ m_ns = NumSpecies
    /\ m_nr = Len(reactions)
    /\ m_rate_groups = EmptyGroups
    /\ m_to_copy = << >>
    /\ m_irr = << >>
    /\ mp_lnkf = NULL /\ mp_lnkb = NULL /\ mp_gibbs = NULL
    /\ block = << >>
    /\ pc = "construct"
    /\ i = 0
    /\ error = ""
    /\ calls = << >>
    /\ thermo = NoState
    /\ repeated = FALSE
    /\ step = 0
    /\ log = << >>
    /\ updated = FALSE

Members == Manager(m_nr, m_rate_groups, m_to_copy, m_irr, calls, error)

\* One turn of the constructor's loop: addReaction(i, reactions[i]).  An
\* exception leaves the constructor and destroys the members built so far.
Construct_addReaction ==
    /\ UNCHANGED << tbvars, rvars, lvars, dvars, ovars >>
    /\ pc = "construct"
    /\ i < m_nr
    /\ LET r == addReaction(Members, i, reactions[i + 1])
       IN  IF r.error # ""
           THEN /\ pc' = "failed"
                /\ error' = r.error
                /\ m_rate_groups' = EmptyGroups
                /\ m_to_copy' = << >>
                /\ m_irr' = << >>
                /\ UNCHANGED << i, calls >>
           ELSE /\ m_rate_groups' = r.m_rate_groups
                /\ m_to_copy' = r.m_to_copy
                /\ m_irr' = r.m_irr
                /\ calls' = r.calls
                /\ i' = i + 1
                /\ UNCHANGED << pc, error >>
    /\ UNCHANGED << reactions, m_ns, m_nr, mp_lnkf, mp_lnkb, mp_gibbs, block,
                    thermo, repeated, step, log, updated >>

\* The allocation with the Gibbs energies laid over the ln(kb) array.
Construct_allocate_overlap ==
    /\ UNCHANGED << tbvars, rvars, lvars, dvars, ovars >>
    /\ pc = "construct"
    /\ i = m_nr
    /\ LET block_size == 2 * m_nr + m_ns
       IN  block' = [k \in 0..(block_size - 1) |-> 0]
    /\ mp_lnkf' = 0
    /\ mp_lnkb' = mp_lnkf' + m_nr
    /\ mp_gibbs' = mp_lnkb'
    /\ pc' = "idle"
    /\ UNCHANGED << reactions, m_ns, m_nr, m_rate_groups, m_to_copy, m_irr,
                    i, error, calls, thermo, repeated, step, log, updated >>

\* The end of the constructor: one zeroed block for the three arrays.
Construct_allocate ==
    /\ UNCHANGED << tbvars, rvars, lvars, dvars, ovars >>
    /\ pc = "construct"
    /\ i = m_nr
    /\ LET block_size == 2 * m_nr + m_ns
       IN  block' = [k \in 0..(block_size - 1) |-> 0]
    /\ mp_lnkf' = 0
    /\ mp_lnkb' = mp_lnkf' + m_nr
    /\ mp_gibbs' = mp_lnkb' + m_nr
    /\ pc' = "idle"
    /\ UNCHANGED << reactions, m_ns, m_nr, m_rate_groups, m_to_copy, m_irr,
                    i, error, calls, thermo, repeated, step, log, updated >>

\* update(thermo) is called with a state.
Update_call(state) ==
    /\ UNCHANGED << tbvars, rvars, lvars, dvars, ovars >>
    /\ pc = "idle"
    /\ pc' = "update"
    /\ thermo' = state
    /\ repeated' = (updated /\ state = thermo)
    /\ step' = 1
    /\ log' = << >>
    /\ UNCHANGED << reactions, m_ns, m_nr, m_rate_groups, m_to_copy, m_irr,
                    mp_lnkf, mp_lnkb, mp_gibbs, block, i, error, calls,
                    updated >>

\* Control passes to the next statement of update, or update returns.
Update_advance ==
    IF step = Len(update)
    THEN pc' = "idle" /\ step' = 0 /\ updated' = TRUE
    ELSE pc' = "update" /\ step' = step + 1 /\ UNCHANGED updated

\* m_rate_groups.logOfRateCoefficients(thermo.state(), mp_lnkf)
Update_evaluate ==
    /\ UNCHANGED << tbvars, rvars, lvars, dvars, ovars >>
    /\ pc = "update"
    /\ update[step] = "evaluate"
    /\ LET r == logOfRateCoefficients(
                    m_rate_groups, 1, thermo, Mem(block, log), mp_lnkf)
       IN  /\ m_rate_groups' = r.groups
           /\ block' = r.mem.block
           /\ log' = r.mem.log
    /\ Update_advance
    /\ UNCHANGED << reactions, m_ns, m_nr, m_to_copy, m_irr,
                    mp_lnkf, mp_lnkb, mp_gibbs, i, error, calls, thermo,
                    repeated >>

\* The loop over m_to_copy: mp_lnkb[index] = mp_lnkf[index].
Update_copy ==
    /\ UNCHANGED << tbvars, rvars, lvars, dvars, ovars >>
    /\ pc = "update"
    /\ update[step] = "copy"
    /\ LET r == copyRates(m_to_copy, 1, Mem(block, log), mp_lnkf, mp_lnkb)
       IN  /\ block' = r.block
           /\ log' = r.log
    /\ Update_advance
    /\ UNCHANGED << reactions, m_ns, m_nr, m_rate_groups, m_to_copy, m_irr,
                    mp_lnkf, mp_lnkb, mp_gibbs, i, error, calls, thermo,
                    repeated >>

\* m_rate_groups.subtractLnKeq(thermo, mp_gibbs, mp_lnkb)
Update_correct ==
    /\ UNCHANGED << tbvars, rvars, lvars, dvars, ovars >>
    /\ pc = "update"
    /\ update[step] = "correct"
    /\ LET r == subtractLnKeq(
                    m_rate_groups, 1, m_ns, Mem(block, log), mp_gibbs, mp_lnkb)
       IN  /\ block' = r.block
           /\ log' = r.log
    /\ Update_advance
    /\ UNCHANGED << reactions, m_ns, m_nr, m_rate_groups, m_to_copy, m_irr,
                    mp_lnkf, mp_lnkb, mp_gibbs, i, error, calls, thermo,
                    repeated >>

\* ------------------------------------------------- calls from two threads

Threads == 1..NumThreads

\* A caller of update: the statement it is to run next (0: not in a call),
\* the state it passed, whether no other thread ran in this manager during
\* its call, and the ln(kf) and ln(kb) arrays as it found them on return.
\* No evaluation of the rate law object yet.
NoEvaluation == [T |-> 0, lnRate |-> 0]

IdleCaller == [step |-> 0, state |-> NoState, alone |-> TRUE, result |-> << >>]

\* A caller of multiplyThirdbodies: the statement it is to run next, its own
\* two arrays (p_r_in as passed, p_r as it is now), and whether no other
\* thread ran in this manager during its call.
IdleTbCaller ==
    [step |-> 0, p_s |-> << >>, p_r_in |-> << >>, p_r |-> << >>, alone |-> TRUE]

InitCallers ==
    /\ callers = [t \in Threads |-> IdleCaller]
    /\ tbcallers = [t \in Threads |-> IdleTbCaller]

\* No rate law object on its own.
InitNoRateLaw ==
    /\ rl_law = Law("none", << >>)
    /\ rl_T = 0
    /\ rl_lnRate = 0
    /\ rl_prev = NoEvaluation

\* ThirdbodyManager(ns, electrons, thermo): no managed reaction; the scratch
\* buffer is allocated and is written before every read.
InitThirdbody ==
    /\ m_effs = << >>
    /\ registered = << >>
    /\ p_g = [g \in 0..(NumSgroups - 1) |-> 0]
    /\ p_s = [s \in 0..(NumSpecies - 1) |-> 0]
    /\ p_s_in = [s \in 0..(NumSpecies - 1) |-> 0]
    /\ p_r = [r \in 0..(NumRates - 1) |-> 0]
    /\ p_r_in = [r \in 0..(NumRates - 1) |-> 0]
    /\ multiplied = FALSE

\* ThirdbodyManager::addReaction(rxn, effs, gEffs).  p_s, p_r and p_r_in
\* (with p_s_in) record the arrays of the last call of multiplyThirdbodies,
\* after and before it; they belong to
\* the caller, and the record is dropped when the list of reactions changes.
Thirdbody_addReaction(rxn, effs, gEffs) ==
    /\ Len(registered) < MaxThirdbodies
    /\ m_effs' = ThirdbodyManager_addReaction(m_effs, rxn, effs, gEffs)
    /\ registered' = Append(registered,
                             [rxn |-> rxn, effs |-> effs, gEffs |-> gEffs])
    /\ p_s' = [s \in 0..(NumSpecies - 1) |-> 0]
    /\ p_s_in' = [s \in 0..(NumSpecies - 1) |-> 0]
    /\ p_r' = [r \in 0..(NumRates - 1) |-> 0]
    /\ p_r_in' = [r \in 0..(NumRates - 1) |-> 0]
    /\ multiplied' = FALSE
    /\ UNCHANGED p_g
    /\ UNCHANGED << rmvars, rvars, lvars, dvars, ovars >>

\* A call multiplyThirdbodies(p_s, p_r) with the caller's two arrays.
Thirdbody_multiplyThirdbodies(conc, rates) ==
    /\ LET r == multiplyThirdbodies(m_effs, conc, rates)
       IN  p_s' = r.p_s /\ p_g' = r.p_g /\ p_r' = r.p_r
    /\ p_s_in' = conc
    /\ p_r_in' = rates
    /\ multiplied' = TRUE
    /\ UNCHANGED << m_effs, registered >>
    /\ UNCHANGED << rmvars, rvars, lvars, dvars, ovars >>

Init == InitManager(UpdatePool) /\ InitThirdbody /\ InitCallers /\ InitNoDescriptor /\ InitNoRateLaw

Next ==
    \/ Construct_addReaction
    \/ Construct_allocate
    \/ \E state \in States : Update_call(state)
    \/ Update_evaluate
    \/ Update_copy
    \/ Update_correct

Spec == Init /\ [][Next]_vars

\* Construction alone, over every reaction type.
InitConstruct == InitManager(ConstructPool) /\ InitThirdbody /\ InitCallers /\ InitNoDescriptor /\ InitNoRateLaw

NextConstruct ==
    \/ Construct_addReaction
    \/ Construct_allocate

SpecConstruct == InitConstruct /\ [][NextConstruct]_vars

\* The ThirdbodyManager alone, beside a manager of no reaction.
InitThirdbodies == InitManager({}) /\ InitThirdbody /\ InitCallers /\ InitNoDescriptor /\ InitNoRateLaw

NextThirdbodies ==
    \/ \E rxn \in 0..(NumRates - 1), effs \in SpeciesEffLists,
          gEffs \in GroupEffLists :
            Thirdbody_addReaction(rxn, effs, gEffs)
    \/ \E conc \in Concentrations, rates \in RatesOfProgress :
            Thirdbody_multiplyThirdbodies(conc, rates)

SpecThirdbodies == InitThirdbodies /\ [][NextThirdbodies]_vars

\* Managers of reactions with a numerically degenerate rate law: a
\* rationalExp whose four b coefficients are zero, beside an Arrhenius law.
DegenerateLaw == Law("rationalExp", << 1, 1, 0, 1, 0, 0, 0, 0, 0 >>)

DegeneratePool ==
    { Reaction(t, rev, law, Nu(0, 1)) :
        t \in { t \in ReactionTypes :
                   TypeName(t) \in { "DISSOCIATION_M", "EXCHANGE" } },
        rev \in BOOLEAN,
        law \in { DegenerateLaw, CHOOSE l \in Laws : l.kind = "Arrhenius" } }

InitDegenerate ==
    InitManager(DegeneratePool) /\ InitThirdbody /\ InitCallers /\ InitNoDescriptor /\ InitNoRateLaw

SpecDegenerate == InitDegenerate /\ [][Next]_vars

\* A rate law object on its own, evaluated at one temperature after another.

\* Temperatures with ln T and 1/T on the grid of Log and Inv.
LawTemps == { Pow(2, k) : k \in 0..(2 * MaxTLevel) }

ArrheniusLaws ==
    { Law("Arrhenius", << lnA, n, Ta >>) :
        lnA \in { 0, 10, 4 * Pow(2, MantBits) }, n \in 0..2, Ta \in 0..2 }

expRat33Laws ==
    { Law("expRat33", << a0, a1, a2, a3, b0, b1, b2 >>) :
        a0 \in { 0, 8 }, a1 \in { 0, 1 }, a2 \in { 0, 1 }, a3 \in { 0, 2 },
        b0 \in { 0, 1 }, b1 \in { 0, 1 }, b2 \in { 0, 1 } }

\* The value the object returns for temperature T: getLnRate with the
\* scalars of T its signature takes.
RateLaw_value(law, T) ==
    CASE law.kind = "Arrhenius" -> Arrhenius_getLnRate(law, Log(T), Inv(T))
      [] law.kind = "expRat33"  -> expRat33_getLnRate(law, T)

\* getLnRate is called for temperature T.
RateLaw_getLnRate(T) ==
    /\ rl_prev' = [T |-> rl_T, lnRate |-> rl_lnRate]
    /\ rl_T' = T
    /\ rl_lnRate' = RateLaw_value(rl_law, T)
    /\ UNCHANGED rl_law
    /\ UNCHANGED << rmvars, tbvars, rvars, dvars, ovars >>

InitRateLaws ==
    /\ InitManager({}) /\ InitThirdbody /\ InitCallers /\ InitNoDescriptor
    /\ rl_law \in ArrheniusLaws \cup expRat33Laws
    /\ rl_T = 0
    /\ rl_lnRate = 0
    /\ rl_prev = NoEvaluation

NextRateLaws == \E T \in LawTemps : RateLaw_getLnRate(T)

SpecRateLaws == InitRateLaws /\ [][NextRateLaws]_vars

\* Two threads call update on one RateManager and multiplyThirdbodies on one
\* ThirdbodyManager.  Neither function takes a lock; the threads interleave
\* at the statements of the two functions.

\* The state each thread passes to update, and its two arrays for
\* multiplyThirdbodies.
ThreadState(t) ==
    LET temp == IF t % 2 = 1 THEN 1 ELSE MaxTemp
    IN  [T |-> temp, Te |-> temp, Tv |-> temp]

ThreadConcentrations(t) == [s \in 0..(NumSpecies - 1) |-> t * One]

ThreadRates(t) == [r \in 0..(NumRates - 1) |-> 5 * One]

\* The other threads in a call are no longer alone in it.
Interfere(cs, t) ==
    [u \in Threads |->
        IF u # t /\ cs[u].step > 0 THEN [cs[u] EXCEPT !.alone = FALSE]
        ELSE cs[u]]

NoneInCall(cs, t) == \A u \in Threads \ {t} : cs[u].step = 0

ReentrantPool ==
    { Reaction(t, TRUE, CHOOSE l \in Laws : l.kind = "Arrhenius", Nu(0, 1)) :
        t \in { t \in ReactionTypes :
                   TypeName(t) \in { "DISSOCIATION_M", "EXCHANGE" } } }

\* The ThirdbodyManager after reaction 0 was registered with one species and
\* one group efficiency.
InitRegistered ==
    /\ m_effs = ThirdbodyManager_addReaction(
                    << >>, 0, << Eff(0, One) >>, << Eff(0, One) >>)
    /\ registered = << [rxn |-> 0, effs |-> << Eff(0, One) >>,
                                   gEffs |-> << Eff(0, One) >>] >>
    /\ p_g = [g \in 0..(NumSgroups - 1) |-> 0]
    /\ p_s = [s \in 0..(NumSpecies - 1) |-> 0]
    /\ p_s_in = [s \in 0..(NumSpecies - 1) |-> 0]
    /\ p_r = [r \in 0..(NumRates - 1) |-> 0]
    /\ p_r_in = [r \in 0..(NumRates - 1) |-> 0]
    /\ multiplied = FALSE

\* Thread t enters update(thermo).
Caller_update(t) ==
    /\ pc = "idle"
    /\ callers[t].step = 0
    /\ callers' = [Interfere(callers, t) EXCEPT
                      ![t] = [step |-> 1, state |-> ThreadState(t),
                              alone |-> NoneInCall(callers, t),
                              result |-> << >>]]
    /\ UNCHANGED << rmvars, tbvars, tbcallers, lvars, dvars, ovars >>

\* Thread t runs its next statement of update on the shared members, and
\* returns after the last.
Caller_update_step(t) ==
    /\ callers[t].step > 0
    /\ LET c     == callers[t]
           phase == update[c.step]
           ev    == logOfRateCoefficients(
                        m_rate_groups, 1, c.state, Mem(block, << >>), mp_lnkf)
           blk   == CASE phase = "evaluate" -> ev.mem.block
                      [] phase = "copy" ->
                            copyRates(m_to_copy, 1, Mem(block, << >>),
                                      mp_lnkf, mp_lnkb).block
                      [] phase = "correct" ->
                            subtractLnKeq(m_rate_groups, 1, m_ns,
                                Mem(block, << >>), mp_gibbs, mp_lnkb).block
       IN  /\ block' = blk
           /\ m_rate_groups' =
                  IF phase = "evaluate" THEN ev.groups ELSE m_rate_groups
           /\ callers' = [Interfere(callers, t) EXCEPT
                  ![t] = IF c.step = Len(update)
                         THEN [c EXCEPT !.step = 0,
                                 !.result = [k \in 0..(2 * m_nr - 1) |->
                                                blk[mp_lnkf + k]]]
                         ELSE [c EXCEPT !.step = c.step + 1]]
    /\ UNCHANGED << reactions, m_ns, m_nr, m_to_copy, m_irr, mp_lnkf, mp_lnkb,
                    mp_gibbs, pc, i, error, calls, thermo, repeated, step, log,
                    updated >>
    /\ UNCHANGED << tbvars, tbcallers, lvars, dvars, ovars >>

\* Thread t enters multiplyThirdbodies(p_s, p_r) with its own two arrays.
Caller_multiplyThirdbodies(t) ==
    /\ tbcallers[t].step = 0
    /\ tbcallers' = [Interfere(tbcallers, t) EXCEPT
                        ![t] = [step |-> 1, p_s |-> ThreadConcentrations(t),
                                p_r_in |-> ThreadRates(t),
                                p_r |-> ThreadRates(t),
                                alone |-> NoneInCall(tbcallers, t)]]
    /\ UNCHANGED << rmvars, tbvars, callers, lvars, dvars, ovars >>

\* Thread t runs its next statement of multiplyThirdbodies: first
\* sumSgroupMembersValues(p_s, p_g) into the shared scratch buffer, then the
\* loop over m_effs with its local sum = 0.0, and returns.
Caller_multiplyThirdbodies_step(t) ==
    /\ tbcallers[t].step > 0
    /\ LET c == tbcallers[t]
       IN  IF c.step = 1
           THEN /\ p_g' = sumSgroupMembersValues(c.p_s)
                /\ tbcallers' = [Interfere(tbcallers, t) EXCEPT ![t].step = 2]
           ELSE /\ p_g' = p_g
                /\ tbcallers' = [Interfere(tbcallers, t) EXCEPT
                       ![t] = [c EXCEPT !.step = 0,
                                 !.p_r = multiplyAll(m_effs, 1, 0, c.p_s, p_g, c.p_r)]]
    /\ UNCHANGED << m_effs, registered, p_s, p_s_in, p_r, p_r_in, multiplied >>
    /\ UNCHANGED << rmvars, callers, lvars, dvars, ovars >>

InitReentrant == InitManager(ReentrantPool) /\ InitRegistered /\ InitCallers /\ InitNoDescriptor /\ InitNoRateLaw

NextReentrant ==
    \/ Construct_addReaction
    \/ Construct_allocate
    \/ \E t \in Threads : Caller_update(t)
    \/ \E t \in Threads : Caller_update_step(t)
    \/ \E t \in Threads : Caller_multiplyThirdbodies(t)
    \/ \E t \in Threads : Caller_multiplyThirdbodies_step(t)

SpecReentrant == InitReentrant /\ [][NextReentrant]_vars

\* ------------------------------------------------- SpeciesListDescriptor

\* A std::string is the sequence of its characters.

\* A switch that knows the blank only.
Whitespace_blankOnly == { " " }

\* The characters the switch of separateSpeciesNames lists as white-space
\* (the vertical tab has no literal here and occurs in no descriptor of the
\* model).
Whitespace == { " ", "\n", "\r", "\t", "\f" }

\* Utilities::String::trim: the string without its leading and trailing
\* white-space.
trim(s) ==
    LET RECURSIVE Left(_)
        Left(t) ==
            IF t # << >> /\ Head(t) \in Whitespace THEN Left(Tail(t)) ELSE t
        RECURSIVE Right(_)
        Right(t) ==
            IF t # << >> /\ t[Len(t)] \in Whitespace
            THEN Right(SubSeq(t, 1, Len(t) - 1))
            ELSE t
    IN Right(Left(s))

\* std::string::find(c, pos), positions counted from 1: the first position
\* from pos on that holds c, npos if there is none.
Find(s, c, pos) ==
    IF \E k \in pos..Len(s) : s[k] = c
    THEN CHOOSE k \in pos..Len(s) :
             s[k] = c /\ \A j \in pos..(k - 1) : s[j] # c
    ELSE npos

\* Utilities::String::tokenize(str, tokens, delim, multi_delim): the
\* non-empty runs of str between delimiters, a delimiter being any character
\* of delim, or with multi_delim false the whole string delim.
tokenize(str, delim, multi_delim) ==
    LET Flush(cur) == IF cur = << >> THEN << >> ELSE << cur >>
        n == IF multi_delim THEN 1 ELSE Len(delim)
        At(k) ==
            IF multi_delim
            THEN \E j \in 1..Len(delim) : str[k] = delim[j]
            ELSE /\ k + n - 1 <= Len(str)
                 /\ SubSeq(str, k, k + n - 1) = delim
        RECURSIVE From(_, _)
        From(k, cur) ==
            IF k > Len(str) THEN Flush(cur)
            ELSE IF At(k) THEN Flush(cur) \o From(k + n, << >>)
            ELSE From(k + 1, Append(cur, str[k]))
    IN From(1, << >>)

\* atoi on a token without sign or leading white-space: the value of its
\* leading digits, 0 if it has none.
atoi(s) ==
    LET Digits == << "0", "1", "2", "3", "4", "5", "6", "7", "8", "9" >>
        IsDigit(c) == \E k \in 1..Len(Digits) : Digits[k] = c
        Value(c) == (CHOOSE k \in 1..Len(Digits) : Digits[k] = c) - 1
        RECURSIVE From(_, _)
        From(k, acc) ==
            IF k <= Len(s) /\ IsDigit(s[k])
            THEN From(k + 1, 10 * acc + Value(s[k]))
            ELSE acc
    IN From(1, 0)

RECURSIVE Itoa(_)
\* operator<< of a size_t into a stream: its decimal digits.
Itoa(n) ==
    LET Digits == << "0", "1", "2", "3", "4", "5", "6", "7", "8", "9" >>
    IN IF n < 10 THEN << Digits[n + 1] >>
       ELSE Itoa(n \div 10) \o << Digits[(n % 10) + 1] >>

\* energyLevel(name, indices).
energyLevel(gs, indices) == [m_groundStateName |-> gs, m_indices |-> indices]

\* energyLevel::name().
energyLevel_name(lvl) ==
    LET RECURSIVE JoinIndices(_)
        JoinIndices(ind) ==
            IF Len(ind) = 1 THEN Itoa(ind[1])
            ELSE Itoa(Head(ind)) \o << "," >> \o JoinIndices(Tail(ind))
    IN IF Len(lvl.m_indices) > 0
       THEN lvl.m_groundStateName \o << "(" >> \o JoinIndices(lvl.m_indices)
                \o << ")" >>
       ELSE lvl.m_groundStateName

\* energyLevel::operator<: by ground-state name, then by indices. Both
\* comparisons are lexicographic, a proper prefix being smaller; characters
\* compare by their codes, Alphabet listing those of the names in that order.
energyLevel_less(a, b) ==
    LET Alphabet ==
            << "\t", " ", "\"", "(", ")", "*", ",", "0", "1", "A", "B", "C", "e" >>
        Code(c) == CHOOSE k \in 1..Len(Alphabet) : Alphabet[k] = c
        Codes(s) == [k \in 1..Len(s) |-> Code(s[k])]
        VectorLess(u, v) ==
            \E k \in 1..Len(v) :
                /\ k <= Len(u) + 1
                /\ \A j \in 1..(k - 1) : u[j] = v[j]
                /\ (k = Len(u) + 1 \/ u[k] < v[k])
    IN IF a.m_groundStateName # b.m_groundStateName
       THEN VectorLess(Codes(a.m_groundStateName), Codes(b.m_groundStateName))
       ELSE VectorLess(a.m_indices, b.m_indices)

\* The loop over the phase keywords of the implicit rule: the three flags it
\* leaves, and whether it threw on an unknown keyword.
PhaseRule(phases) ==
    LET RECURSIVE Loop(_, _)
        Loop(rest, flags) ==
            IF rest = << >> THEN flags
            ELSE LET p == Head(rest) IN
                 CASE p = << "g", "a", "s", "e", "s" >> ->
                          Loop(Tail(rest), [flags EXCEPT !.gases = TRUE])
                   [] p = << "l", "i", "q", "u", "i", "d", "s" >> ->
                          Loop(Tail(rest), [flags EXCEPT !.liquids = TRUE])
                   [] p = << "s", "o", "l", "i", "d", "s" >> ->
                          Loop(Tail(rest), [flags EXCEPT !.solids = TRUE])
                   [] p = << "c", "o", "n", "d", "e", "n", "s", "e", "d" >> ->
                          Loop(Tail(rest),
                              [flags EXCEPT !.solids = TRUE, !.liquids = TRUE])
                   [] p = << "a", "l", "l" >> ->
                          Loop(Tail(rest),
                              [flags EXCEPT !.gases = TRUE, !.solids = TRUE,
                                            !.liquids = TRUE])
                   [] OTHER -> [flags EXCEPT !.error = TRUE]
    IN Loop(phases, [gases |-> FALSE, solids |-> FALSE, liquids |-> FALSE,
                     error |-> FALSE])

\* The constructor's first step: the text between the first '{' and the
\* next '}' is cut out of the descriptor and read as "phases with elements".
\* rules[0] and rules[1] are read unchecked: a rule with fewer parts than
\* are read is undefined behaviour, after which the run stops or goes on
\* with nothing read for the absent part.
Descriptor_rule ==
    /\ d_pc = "rule"
    /\ LET is == Find(descriptor, "{", 1) IN
       IF is = npos
       THEN /\ d_pc' = "trim"
            /\ UNCHANGED << descriptor, m_gases, m_solids, m_liquids,
                            m_element_names, d_error >>
       ELSE LET es == Find(descriptor, "}", is)
                last == IF es = npos THEN Len(descriptor) ELSE es
                rule == SubSeq(descriptor, is + 1,
                               IF es = npos THEN Len(descriptor) ELSE es - 1)
                rules == tokenize(rule, << "w", "i", "t", "h" >>, FALSE)
                undefined == Len(rules) < 2
                flags == PhaseRule(IF rules = << >> THEN << >>
                                   ELSE tokenize(rules[1], << ",", " " >>, TRUE))
                elements == IF undefined THEN << >>
                            ELSE tokenize(rules[2], << ",", " " >>, TRUE)
            IN /\ descriptor' = SubSeq(descriptor, 1, is - 1)
                                \o SubSeq(descriptor, last + 1, Len(descriptor))
               /\ IF flags.error
                  THEN /\ d_pc' = "error"
                       /\ d_error' = "InvalidInputError"
                       /\ UNCHANGED << m_gases, m_solids, m_liquids,
                                       m_element_names >>
                  ELSE /\ m_gases' = flags.gases
                       /\ m_solids' = flags.solids
                       /\ m_liquids' = flags.liquids
                       /\ m_element_names' =
                              { elements[k] : k \in DOMAIN elements }
                       /\ d_error' = d_error
                       /\ \/ d_pc' = "trim"
                          \/ undefined /\ d_pc' = "crashed"
    /\ UNCHANGED << d_i, in_quotes, name, quoted, m_species_names,
                    m_expand_states, gsNames, it, rit1, rit2, gsName,
                    underflow >>
    /\ UNCHANGED << rmvars, tbvars, rvars, lvars, ovars >>

\* separateSpeciesNames up to its loop: the descriptor is trimmed and the
\* state machine starts inside quotes if the first character is a quotation
\* mark.
separateSpeciesNames_begin ==
    /\ d_pc = "trim"
    /\ descriptor' = trim(descriptor)
    /\ in_quotes' = (descriptor' # << >> /\ descriptor'[1] = "\"")
    /\ name' = << >>
    /\ d_i' = IF in_quotes' THEN 1 ELSE 0
    /\ d_pc' = "separate"
    /\ UNCHANGED << quoted, m_species_names, m_element_names, m_gases,
                    m_solids, m_liquids, m_expand_states, gsNames, it, rit1,
                    rit2, gsName, underflow, d_error >>
    /\ UNCHANGED << rmvars, tbvars, rvars, lvars, ovars >>

\* One turn of the loop of separateSpeciesNames, on the character c at
\* index d_i. PushName is m_species_names.push_back(name); name = "" under
\* its test that name is not empty.
separateSpeciesNames_char ==
    /\ d_pc = "separate"
    /\ d_i < Len(descriptor)
    /\ LET c == descriptor[d_i + 1]
           PushName ==
               IF Len(name) > 0
               THEN /\ m_species_names' = Append(m_species_names, name)
                    /\ quoted' = Append(quoted, [quotes |-> in_quotes,
                                                 last |-> d_i + 1])
                    /\ name' = << >>
               ELSE UNCHANGED << m_species_names, quoted, name >>
       IN
       IF in_quotes
       THEN IF c = "\""
            THEN /\ in_quotes' = FALSE
                 /\ PushName
                 /\ UNCHANGED << d_pc, d_error >>
            ELSE /\ name' = Append(name, c)
                 /\ UNCHANGED << in_quotes, m_species_names, quoted, d_pc,
                                 d_error >>
       ELSE CASE c \in Whitespace ->
                     /\ PushName
                     /\ UNCHANGED << in_quotes, d_pc, d_error >>
              [] c = "\"" ->
                     IF Len(name) > 0
                     THEN /\ d_pc' = "error"
                          /\ d_error' = "InvalidInputError"
                          /\ UNCHANGED << in_quotes, name, m_species_names,
                                          quoted >>
                     ELSE /\ in_quotes' = TRUE
                          /\ UNCHANGED << name, m_species_names, quoted,
                                          d_pc, d_error >>
              [] OTHER ->
                     /\ name' = Append(name, c)
                     /\ UNCHANGED << in_quotes, m_species_names, quoted,
                                     d_pc, d_error >>
    /\ d_i' = d_i + 1
    /\ UNCHANGED << descriptor, m_element_names, m_gases, m_solids, m_liquids,
                    m_expand_states, gsNames, it, rit1, rit2, gsName,
                    underflow >>
    /\ UNCHANGED << rmvars, tbvars, rvars, lvars, ovars >>

\* The end of separateSpeciesNames: the last name is pushed back if it is
\* not empty, and the constructor goes on to its loop over the names.
separateSpeciesNames_end ==
    /\ d_pc = "separate"
    /\ d_i >= Len(descriptor)
    /\ IF Len(name) > 0
       THEN /\ m_species_names' = Append(m_species_names, name)
            /\ quoted' = Append(quoted, [quotes |-> in_quotes,
                                         last |-> d_i + 1])
       ELSE UNCHANGED << m_species_names, quoted >>
    /\ it' = 1
    /\ d_pc' = "expand"
    /\ UNCHANGED << descriptor, d_i, in_quotes, name, m_element_names,
                    m_gases, m_solids, m_liquids, m_expand_states, gsNames,
                    rit1, rit2, gsName, underflow, d_error >>
    /\ UNCHANGED << rmvars, tbvars, rvars, lvars, ovars >>

\* What the constructor reads out of one name: the ground-state name, and
\* from the tokens between its parentheses the level indices and the number
\* of stars; error when an index follows a star.
ParseName(nm) ==
    LET RECURSIVE LevelTokens(_, _)
        LevelTokens(tokens, acc) ==
            IF tokens = << >> THEN acc
            ELSE CASE Head(tokens) = << "*" >> ->
                          LevelTokens(Tail(tokens), [acc EXCEPT !.expd = @ + 1])
                   [] Head(tokens) # << "*" >> /\ acc.expd = 0 ->
                          LevelTokens(Tail(tokens),
                              [acc EXCEPT !.indices =
                                              Append(@, atoi(Head(tokens)))])
                   [] OTHER -> [acc EXCEPT !.error = TRUE]
        spos == Find(nm, "(", 1)
    IN IF spos # npos
       THEN LET epos == Find(nm, ")", spos)
                inner == SubSeq(nm, spos + 1,
                                IF epos = npos THEN Len(nm) ELSE epos - 1)
                r == LevelTokens(tokenize(inner, << "," >>, TRUE),
                         [indices |-> << >>, expd |-> 0, error |-> FALSE])
            IN [gsName |-> SubSeq(nm, 1, spos - 1), indices |-> r.indices,
                expd |-> r.expd, error |-> r.error]
       ELSE [gsName |-> nm, indices |-> << >>, expd |-> 0, error |-> FALSE]

\* m_expand_states.insert(pair(key, expd)), and for an entry that was
\* already there the maximum of its star count and expd: the map is kept as
\* the sequence of its entries in the order of energyLevel::operator<.
InsertLevel(map, key, expd) ==
    IF \E k \in 1..Len(map) : map[k].first = key
    THEN [k \in 1..Len(map) |->
             IF map[k].first = key /\ map[k].second < expd
             THEN [map[k] EXCEPT !.second = expd]
             ELSE map[k]]
    ELSE LET n == Cardinality({ k \in 1..Len(map) :
                                  energyLevel_less(map[k].first, key) })
         IN SubSeq(map, 1, n) \o << [first |-> key, second |-> expd] >>
            \o SubSeq(map, n + 1, Len(map))

\* erase(it) of a vector, a list or a map, positions counted from 1.
Erase(seq, k) == SubSeq(seq, 1, k - 1) \o SubSeq(seq, k + 1, Len(seq))

\* One turn of the constructor's loop over m_species_names.
Descriptor_expand ==
    /\ d_pc = "expand"
    /\ it <= Len(m_species_names)
    /\ LET p == ParseName(m_species_names[it]) IN
       IF p.error
       THEN /\ d_pc' = "error"
            /\ d_error' = "InvalidInputError"
            /\ UNCHANGED << m_expand_states, m_species_names, gsNames, it >>
       ELSE /\ m_expand_states' =
                   InsertLevel(m_expand_states,
                               energyLevel(p.gsName, p.indices), p.expd)
            /\ IF p.gsName \in gsNames
               THEN /\ m_species_names' = Erase(m_species_names, it)
                    /\ UNCHANGED << gsNames, it >>
               ELSE /\ m_species_names' =
                           [m_species_names EXCEPT ![it] = p.gsName]
                    /\ gsNames' = gsNames \cup { p.gsName }
                    /\ it' = it + 1
            /\ UNCHANGED << d_pc, d_error >>
    /\ UNCHANGED << descriptor, d_i, in_quotes, name, quoted, m_element_names,
                    m_gases, m_solids, m_liquids, rit1, rit2, gsName,
                    underflow >>
    /\ UNCHANGED << rmvars, tbvars, rvars, lvars, ovars >>

\* The start of the duplicate/conflict scan: rit1 = end(); rit1--. On an
\* empty map end() is begin() and the decrement is undefined: the run stops
\* there, or goes on with an iterator that compares equal to begin().
Descriptor_scan_begin ==
    /\ d_pc = "expand"
    /\ it > Len(m_species_names)
    /\ IF m_expand_states = << >>
       THEN /\ underflow' = TRUE
            /\ rit1' = 1
            /\ d_pc' \in { "crashed", "outer" }
       ELSE /\ rit1' = Len(m_expand_states)
            /\ d_pc' = "outer"
            /\ UNCHANGED underflow
    /\ UNCHANGED << descriptor, d_i, in_quotes, name, quoted, m_species_names,
                    m_element_names, m_gases, m_solids, m_liquids,
                    m_expand_states, gsNames, it, rit2, gsName, d_error >>
    /\ UNCHANGED << rmvars, tbvars, rvars, lvars, ovars >>

\* The test of the outer loop of the scan and the two statements that open
\* its body.
Descriptor_scan_outer ==
    /\ d_pc = "outer"
    /\ IF rit1 # 1
       THEN /\ rit2' = rit1 - 1
            /\ gsName' = m_expand_states[rit1].first.m_groundStateName
            /\ d_pc' = "inner"
       ELSE /\ d_pc' = "done"
            /\ UNCHANGED << rit2, gsName >>
    /\ UNCHANGED << descriptor, d_i, in_quotes, name, quoted, m_species_names,
                    m_element_names, m_gases, m_solids, m_liquids,
                    m_expand_states, gsNames, it, rit1, underflow, d_error >>
    /\ UNCHANGED << rmvars, tbvars, rvars, lvars, ovars >>

\* A scan that compares the whole index list of rit1.
subind_whole(ind, nsub, garbage) == ind

\* std::vector<size_t> subind(begin, begin + nsub) of the indices ind: when
\* nsub exceeds their number the range runs past their end and is filled
\* with whatever lies there.
subind(ind, nsub, garbage) ==
    IF nsub <= Len(ind) THEN SubSeq(ind, 1, nsub) ELSE ind \o garbage

\* The test of the inner loop of the scan and one turn of its body, with the
\* rit1-- that follows the loop when it is left.
Descriptor_scan_inner ==
    /\ d_pc = "inner"
    /\ LET e1 == m_expand_states[rit1]
           e2 == m_expand_states[rit2]
           nsub == Len(e2.first.m_indices)
           n1 == Len(e1.first.m_indices)
       IN
       IF e2.first.m_groundStateName # gsName
       THEN /\ rit1' = rit1 - 1
            /\ d_pc' = "outer"
            /\ UNCHANGED << m_expand_states, rit2, d_error >>
       ELSE \E garbage \in [1..(IF nsub > n1 THEN nsub - n1 ELSE 0) -> 0..1] :
              IF subind(e1.first.m_indices, nsub, garbage) = e2.first.m_indices
              THEN IF e2.second = n1 - nsub /\ e1.second = 0
                   THEN /\ m_expand_states' = Erase(m_expand_states, rit1)
                        /\ rit1' = rit1 - 1
                        /\ d_pc' = "outer"
                        /\ UNCHANGED << rit2, d_error >>
                   ELSE /\ d_pc' = "error"
                        /\ d_error' = "InvalidInputError"
                        /\ UNCHANGED << m_expand_states, rit1, rit2 >>
              ELSE IF rit2 = 1
                   THEN /\ rit1' = rit1 - 1
                        /\ d_pc' = "outer"
                        /\ UNCHANGED << m_expand_states, rit2, d_error >>
                   ELSE /\ rit2' = rit2 - 1
                        /\ UNCHANGED << m_expand_states, rit1, d_pc, d_error >>
    /\ UNCHANGED << descriptor, d_i, in_quotes, name, quoted, m_species_names,
                    m_element_names, m_gases, m_solids, m_liquids, gsNames,
                    it, gsName, underflow >>
    /\ UNCHANGED << rmvars, tbvars, rvars, lvars, ovars >>

NextDescriptor ==
    \/ Descriptor_rule
    \/ separateSpeciesNames_begin
    \/ separateSpeciesNames_char
    \/ separateSpeciesNames_end
    \/ Descriptor_expand
    \/ Descriptor_scan_begin
    \/ Descriptor_scan_outer
    \/ Descriptor_scan_inner

\* The descriptors the constructor is run on.

MaxNames == 3

MaxLen == 5

MaxInput == 3

MaxOrderNames == 2

\* The descriptors that list at most n of the names S, one blank between
\* two.
DescriptorsOf(S, n) ==
    LET RECURSIVE Join(_)
        Join(names) ==
            IF names = << >> THEN << >>
            ELSE IF Len(names) = 1 THEN names[1]
            ELSE Head(names) \o << " " >> \o Join(Tail(names))
    IN { Join(l) : l \in UNION { [1..m -> S] : m \in 0..n } }

\* Lists of names with their levels written in every way: none, all
\* electronic levels, one electronic level, one vibrational level, the
\* vibrational levels of one electronic level, an index after a star.
\* Descriptors with an implicit rule: a rule alone, a rule beside names, a
\* rule with an unknown phase keyword, a rule without element part. Free
\* text: every string of at most MaxLen characters, white-space and
\* quotation marks among them.
Descriptors ==
    LET LevelForms ==
            { << >>,
              << "(", "*", ")" >>,
              << "(", "0", ")" >>,
              << "(", "1", ")" >>,
              << "(", "0", ",", "1", ")" >>,
              << "(", "0", ",", "*", ")" >>,
              << "(", "*", ",", "1", ")" >> }
        ListedNames ==
            { << "A" >> \o f : f \in LevelForms }
                \cup { << "B" >>, << "B", "(", "0", ")" >> }
        with == << " ", "w", "i", "t", "h", " " >>
        RuleDescriptors ==
            { << "{", "g", "a", "s", "e", "s" >> \o with \o << "A", "}" >>,
              << "{", "a", "l", "l" >> \o with
                  \o << "A", ",", " ", "B", "}", " ", "B" >>,
              << "A", " ", "{", "c", "o", "n", "d", "e", "n", "s", "e", "d" >>
                  \o with \o << "B", "}" >>,
              << "{", "g", "a", "s" >> \o with \o << "A", "}" >>,
              << "{", "g", "a", "s", "e", "s", "}" >> }
        FreeTexts ==
            UNION { [1..n -> { "A", " ", "\t", "\"" }] : n \in 0..MaxLen }
    IN DescriptorsOf(ListedNames, MaxNames) \cup RuleDescriptors \cup FreeTexts

\* SpeciesListDescriptor(descriptor) is entered.
InitDescriptor ==
    /\ InitManager({}) /\ InitThirdbody /\ InitCallers /\ InitNoRateLaw
    /\ InitSpeciesList(Descriptors, "rule")

SpecDescriptor == InitDescriptor /\ [][NextDescriptor]_vars

\* Species: the accessors order and energyLevel use.

NONE == 0

ELECTRONIC == 1

VIBRATIONAL == 2

ROTATIONAL == 3

Species(gs, levelType, level, vibLevel, type, phase) ==
    [groundStateName |-> gs, levelType |-> levelType, level |-> level,
     vibLevel |-> vibLevel, rotLevel |-> 0, type |-> type, phase |-> phase]

\* energyLevel(species).
energyLevelOf(species) ==
    energyLevel(species.groundStateName,
        (IF species.levelType >= ELECTRONIC THEN << species.level >> ELSE << >>)
        \o (IF species.levelType >= VIBRATIONAL THEN << species.vibLevel >> ELSE << >>)
        \o (IF species.levelType >= ROTATIONAL THEN << species.rotLevel >> ELSE << >>))

\* Species::name(): the ground-state name followed by the level indices, the
\* form in which order looks the listed levels up.
Species_name(species) == energyLevel_name(energyLevelOf(species))

\* IsCondensed.
IsCondensed(s) == s.phase # "GAS"

\* The elements of a sequence.
Range(f) == { f[k] : k \in DOMAIN f }

\* std::find_if(first, end, pred) on the sequence of a list, the predicate
\* given as a function on the elements of the list: the position found,
\* Len + 1 for end().
find_if(list, first, pred) ==
    IF \E k \in first..Len(list) : pred[list[k]]
    THEN CHOOSE k \in first..Len(list) :
             pred[list[k]] /\ \A j \in first..(k - 1) : ~pred[list[j]]
    ELSE Len(list) + 1

\* An expansion that takes the levels as the input holds them.
LowestLevel_first(list, lowest_level, itr, nm) == lowest_level

RECURSIVE LowestLevel(_, _, _, _)
\* The inner loop of the expansion: the first of the lowest levels of nm
\* among list, from the candidate lowest_level and the position itr on.
LowestLevel(list, lowest_level, itr, nm) ==
    LET nxt == find_if(list, itr, [s \in Range(list) |-> s.groundStateName = nm]) IN
    IF nxt > Len(list) THEN lowest_level
    ELSE LowestLevel(list,
             IF energyLevel_less(energyLevelOf(list[nxt]),
                                 energyLevelOf(list[lowest_level]))
             THEN nxt ELSE lowest_level,
             nxt + 1, nm)

RECURSIVE ExpandName(_, _, _)
\* The outer loop of the expansion: the levels of nm move from inp to the
\* end of ord, the lowest first.
ExpandName(inp, ord, nm) ==
    LET first == find_if(inp, 1, [s \in Range(inp) |-> s.groundStateName = nm]) IN
    IF first > Len(inp) THEN [input |-> inp, ordered_list |-> ord]
    ELSE LET lowest_level == LowestLevel(inp, first, first + 1, nm)
         IN ExpandName(Erase(inp, lowest_level),
                       Append(ord, inp[lowest_level]), nm)

RECURSIVE MissingLevels(_, _)
\* The loop over m_expand_states: the names of the entries without star
\* that name no species of ord, in the order of the map.
MissingLevels(map, ord) ==
    IF map = << >> THEN << >>
    ELSE LET nm == energyLevel_name(Head(map).first) IN
         (IF /\ Head(map).second = 0
             /\ find_if(ord, 1, [s \in Range(ord) |-> Species_name(s) = nm]) > Len(ord)
          THEN << nm >>
          ELSE << >>)
         \o MissingLevels(Tail(map), ord)

\* The lists of at most MaxInput different species of the model: the
\* electron, a gas atom and two of its electronic levels, a solid and a
\* liquid.
Inputs ==
    LET Pool ==
            { Species(<< "e" >>, NONE, 0, 0, "ELECTRON", "GAS"),
              Species(<< "A" >>, NONE, 0, 0, "ATOM", "GAS"),
              Species(<< "A" >>, ELECTRONIC, 0, 0, "ATOM", "GAS"),
              Species(<< "A" >>, ELECTRONIC, 1, 0, "ATOM", "GAS"),
              Species(<< "B" >>, NONE, 0, 0, "MOLECULE", "SOLID"),
              Species(<< "C" >>, NONE, 0, 0, "MOLECULE", "LIQUID") }
    IN { l \in UNION { [1..m -> Pool] : m \in 0..MaxInput } :
           \A j, k \in 1..Len(l) : j # k => l[j] # l[k] }

\* order(input, output, missing) is entered on the constructed descriptor,
\* with whatever the output vector holds.
Order_call(inp, out) ==
    /\ d_pc = "done"
    /\ o_pc = "none"
    /\ input' = inp /\ input_in' = inp
    /\ output' = out /\ output_in' = out
    /\ missing' = << >>
    /\ ordered_list' = << >>
    /\ o_i' = 0
    /\ o_pc' = "explicit"
    /\ UNCHANGED << ncond, o_log >>
    /\ UNCHANGED << rmvars, tbvars, rvars, lvars, dvars >>

\* One turn of the loop over the explicitly listed names.
Order_explicit ==
    /\ o_pc = "explicit"
    /\ o_i < Len(m_species_names)
    /\ LET nm == m_species_names[o_i + 1] IN
       IF \E k \in 1..Len(m_expand_states) :
              /\ m_expand_states[k].first = energyLevel(nm, << >>)
              /\ m_expand_states[k].second = 0
       THEN LET p == find_if(input, 1, [s \in Range(input) |-> Species_name(s) = nm]) IN
            IF p > Len(input)
            THEN /\ missing' = Append(missing, nm)
                 /\ UNCHANGED << input, ordered_list >>
            ELSE /\ ordered_list' = Append(ordered_list, input[p])
                 /\ input' = Erase(input, p)
                 /\ UNCHANGED missing
       ELSE LET r == ExpandName(input, ordered_list, nm) IN
            /\ input' = r.input
            /\ ordered_list' = r.ordered_list
            /\ UNCHANGED missing
    /\ o_i' = o_i + 1
    /\ o_log' = Append(o_log, [step |-> "explicit", list |-> ordered_list'])
    /\ UNCHANGED << output, ncond, o_pc, input_in, output_in >>
    /\ UNCHANGED << rmvars, tbvars, rvars, lvars, dvars >>

\* The check of the explicitly listed levels.
Order_levels ==
    /\ o_pc = "explicit"
    /\ o_i >= Len(m_species_names)
    /\ missing' = missing \o MissingLevels(m_expand_states, ordered_list)
    /\ o_pc' = "check"
    /\ o_log' = Append(o_log, [step |-> "levels", list |-> ordered_list])
    /\ UNCHANGED << input, output, ordered_list, o_i, ncond, input_in,
                    output_in >>
    /\ UNCHANGED << rmvars, tbvars, rvars, lvars, dvars >>

\* An order that notes the missing species and goes on.
Order_return_goesOn ==
    /\ o_pc = "check"
    /\ Len(missing) > 0
    /\ o_pc' = "electron"
    /\ o_log' = Append(o_log, [step |-> "return", list |-> ordered_list])
    /\ UNCHANGED << input, output, missing, ordered_list, o_i, ncond,
                    input_in, output_in >>
    /\ UNCHANGED << rmvars, tbvars, rvars, lvars, dvars >>

\* The early return.
Order_return ==
    /\ o_pc = "check"
    /\ Len(missing) > 0
    /\ o_pc' = "returned"
    /\ o_log' = Append(o_log, [step |-> "return", list |-> ordered_list])
    /\ UNCHANGED << input, output, missing, ordered_list, o_i, ncond,
                    input_in, output_in >>
    /\ UNCHANGED << rmvars, tbvars, rvars, lvars, dvars >>

\* An order that appends the remaining species and leaves them in input.
Order_remainder_noClear ==
    /\ o_pc = "check"
    /\ ~(Len(missing) > 0)
    /\ ordered_list' = ordered_list \o input
    /\ o_pc' = "electron"
    /\ o_log' = Append(o_log, [step |-> "remainder", list |-> ordered_list'])
    /\ UNCHANGED << input, output, missing, o_i, ncond, input_in, output_in >>
    /\ UNCHANGED << rmvars, tbvars, rvars, lvars, dvars >>

\* The implicitly defined species follow the listed ones.
Order_remainder ==
    /\ o_pc = "check"
    /\ ~(Len(missing) > 0)
    /\ ordered_list' = ordered_list \o input
    /\ input' = << >>
    /\ o_pc' = "electron"
    /\ o_log' = Append(o_log, [step |-> "remainder", list |-> ordered_list'])
    /\ UNCHANGED << output, missing, o_i, ncond, input_in, output_in >>
    /\ UNCHANGED << rmvars, tbvars, rvars, lvars, dvars >>

\* std::list::splice of the element at position k to the position `to` of
\* the list without it.
splice(list, to, k) ==
    LET rest == Erase(list, k)
    IN SubSeq(rest, 1, to - 1) \o << list[k] >> \o SubSeq(rest, to, Len(rest))

\* An order that leaves the electron where the list has it.
Order_electron_inPlace ==
    /\ o_pc = "electron"
    /\ ncond' = Cardinality({ k \in 1..Len(ordered_list) :
                                IsCondensed(ordered_list[k]) })
    /\ o_pc' = "condensed"
    /\ o_log' = Append(o_log, [step |-> "electron", list |-> ordered_list])
    /\ UNCHANGED << input, output, missing, ordered_list, o_i, input_in,
                    output_in >>
    /\ UNCHANGED << rmvars, tbvars, rvars, lvars, dvars >>

\* The electron is placed first, and the condensed species are counted.
Order_electron ==
    /\ o_pc = "electron"
    /\ LET p == find_if(ordered_list, 1, [s \in Range(ordered_list) |-> s.type = "ELECTRON"]) IN
       LET placed == IF p # 1 /\ p # Len(ordered_list) + 1
                     THEN splice(ordered_list, 1, p)
                     ELSE ordered_list
       IN /\ ordered_list' = placed
          /\ ncond' = Cardinality({ k \in 1..Len(placed) : IsCondensed(placed[k]) })
    /\ o_pc' = "condensed"
    /\ o_log' = Append(o_log, [step |-> "electron", list |-> ordered_list'])
    /\ UNCHANGED << input, output, missing, o_i, input_in, output_in >>
    /\ UNCHANGED << rmvars, tbvars, rvars, lvars, dvars >>

\* A loop that moves the condensed species to the front.
Order_condensed_toFront ==
    /\ o_pc = "condensed"
    /\ ncond > 0
    /\ ncond' = ncond - 1
    /\ ordered_list' =
           splice(ordered_list, 1, find_if(ordered_list, 1,
                       [s \in Range(ordered_list) |-> IsCondensed(s)]))
    /\ o_log' = Append(o_log, [step |-> "condensed", list |-> ordered_list'])
    /\ UNCHANGED << input, output, missing, o_i, o_pc, input_in, output_in >>
    /\ UNCHANGED << rmvars, tbvars, rvars, lvars, dvars >>

\* One turn of the loop that moves the condensed species to the end.
Order_condensed ==
    /\ o_pc = "condensed"
    /\ ncond > 0
    /\ ncond' = ncond - 1
    /\ ordered_list' =
           splice(ordered_list, Len(ordered_list),
                  find_if(ordered_list, 1,
                       [s \in Range(ordered_list) |-> IsCondensed(s)]))
    /\ o_log' = Append(o_log, [step |-> "condensed", list |-> ordered_list'])
    /\ UNCHANGED << input, output, missing, o_i, o_pc, input_in, output_in >>
    /\ UNCHANGED << rmvars, tbvars, rvars, lvars, dvars >>

\* The loop is left and the list is copied to the output vector.
Order_assign ==
    /\ o_pc = "condensed"
    /\ ~(ncond > 0)
    /\ ncond' = ncond - 1
    /\ output' = ordered_list
    /\ o_pc' = "returned"
    /\ o_log' = Append(o_log, [step |-> "assign", list |-> ordered_list])
    /\ UNCHANGED << input, missing, ordered_list, o_i, input_in, output_in >>
    /\ UNCHANGED << rmvars, tbvars, rvars, lvars, dvars >>

\* order is run on the descriptors of at most MaxOrderNames names, and on a
\* rule alone.
InitOrder ==
    /\ InitManager({}) /\ InitThirdbody /\ InitCallers /\ InitNoRateLaw
    /\ InitSpeciesList(
           DescriptorsOf({ << "e" >>, << "A" >>, << "A", "(", "*", ")" >>,
                           << "A", "(", "0", ")" >>, << "A", "(", "1", ")" >>,
                           << "B" >>, << "C" >> }, MaxOrderNames)
             \cup { << "{", "a", "l", "l", " ", "w", "i", "t", "h", " ", "A", "}" >> },
           "rule")

NextOrder ==
    \/ Descriptor_rule
    \/ separateSpeciesNames_begin
    \/ separateSpeciesNames_char
    \/ separateSpeciesNames_end
    \/ Descriptor_expand
    \/ Descriptor_scan_begin
    \/ Descriptor_scan_outer
    \/ Descriptor_scan_inner
    \/ \E inp \in Inputs,
          out \in { << >>, << Species(<< "C" >>, NONE, 0, 0, "MOLECULE", "LIQUID") >> } :
           Order_call(inp, out)
    \/ Order_explicit
    \/ Order_levels
    \/ Order_return
    \/ Order_remainder
    \/ Order_electron
    \/ Order_condensed
    \/ Order_assign

SpecOrder == InitOrder /\ [][NextOrder]_vars


\* --------------------------------------------------------------- properties

Rxns == 0..(m_nr - 1)

Rxn(r) == reactions[r + 1]

\* The selectors the table resolves for reaction r.
FwdSel(r) == RateSelector(Rxn(r).type).ForwardGroup

RevSel(r) == RateSelector(Rxn(r).type).ReverseGroup

\* An update has returned and none is in progress.
Updated == pc = "idle" /\ updated

lnkf(r) == block[mp_lnkf + r]

lnkb(r) == block[mp_lnkb + r]

\* The rate law of reaction r at the temperature selector sel gives in the
\* state of the last update.
RateAt(r, sel) == getLnRate(Rxn(r).rateLaw, getT(sel, thermo))

\* ln(Keq) of reaction r at temperature t, from the species Gibbs energies.
LnKeqAt(r, t) ==
    0 - SumTo([s \in 0..(m_ns - 1) |-> Rxn(r).nu[s] * SpeciesGibbsOverRT(s, t)],
              m_ns)

\* C1: after update(state), for every reversible reaction the ln(kb) slot
\* holds the rate law at the reverse selector's temperature minus ln(Keq) at
\* that temperature; with equal selectors this is ln(kf) - ln(Keq).
C1_ReverseRate ==
    Updated =>
        \A r \in Rxns :
            Rxn(r).isReversible =>
                /\ lnkb(r) = RateAt(r, RevSel(r))
                               - LnKeqAt(r, getT(RevSel(r), thermo))
                /\ FwdSel(r) = RevSel(r) =>
                       lnkb(r) = lnkf(r) - LnKeqAt(r, getT(FwdSel(r), thermo))

\* A reversible reaction evaluated at two different temperatures beside a
\* reversible reaction with equal selectors, after an update.
C1_Witness ==
    /\ Updated
    /\ \E r \in Rxns :
          /\ Rxn(r).isReversible
          /\ getT(FwdSel(r), thermo) # getT(RevSel(r), thermo)
          /\ RateAt(r, FwdSel(r)) # RateAt(r, RevSel(r))
          /\ LnKeqAt(r, getT(RevSel(r), thermo)) # 0
    /\ \E r \in Rxns :
          /\ Rxn(r).isReversible
          /\ FwdSel(r) = RevSel(r)
          /\ lnkb(r) # lnkf(r)

\* Positions of the group entries with output slot `slot`.
EntriesAt(slot) ==
    UNION { { << k, j >> : j \in { n \in DOMAIN m_rate_groups[k].m_rates :
                                    m_rate_groups[k].m_rates[n].first = slot } } :
            k \in GroupKeys }

CopiesOf(r) == { j \in DOMAIN m_to_copy : m_to_copy[j] = r }

\* Reactions the constructor's loop has handled.
Handled == IF pc = "failed" THEN {} ELSE 0..(i - 1)

\* C2: every reaction has exactly one forward group entry (slot = index);
\* a reversible reaction has exactly one of a reverse entry (slot index + N)
\* and a place in the copy list, an irreversible one has neither.
C2_Partition ==
    \A r \in Handled :
        /\ Cardinality(EntriesAt(r)) = 1
        /\ IF Rxn(r).isReversible
           THEN Cardinality(EntriesAt(r + m_nr)) + Cardinality(CopiesOf(r)) = 1
           ELSE EntriesAt(r + m_nr) = {} /\ CopiesOf(r) = {}

\* A constructed manager with one reaction in the copy list and one with a
\* reverse group entry.
C2_Witness ==
    /\ pc = "idle"
    /\ m_nr = 2
    /\ \E r \in Rxns : CopiesOf(r) # {}
    /\ \E r \in Rxns : EntriesAt(r + m_nr) # {}

\* The statements of update that have run in the call in progress.
Ran == IF pc = "update" THEN { update[k] : k \in 1..(step - 1) } ELSE {}

\* The copy loop has finished and the Keq subtraction has not started.
AfterCopy == pc = "update" /\ "copy" \in Ran /\ "correct" \notin Ran

\* C3: between the copy phase and the Keq subtraction, ln(kb) = ln(kf) for
\* every reversible reaction whose forward and reverse selectors are equal.
C3_CopyEqualsForward ==
    AfterCopy =>
        \A r \in Rxns :
            (Rxn(r).isReversible /\ FwdSel(r) = RevSel(r)) =>
                lnkb(r) = lnkf(r)

\* After the copy phase of a later update: the slot copied over held the
\* corrected value of the update before.
C3_Witness ==
    /\ AfterCopy
    /\ updated
    /\ \E r \in Rxns :
          /\ Rxn(r).isReversible
          /\ FwdSel(r) = RevSel(r)
          /\ lnkb(r) # 0
          /\ \E k \in DOMAIN log : log[k].op = "w" /\ log[k].slot = mp_lnkb + r

\* The group that corrects the reverse rate of reaction r.
ReverseGroupOf(r) ==
    CHOOSE k \in GroupKeys :
        \E j \in DOMAIN m_rate_groups[k].m_reacs :
            m_rate_groups[k].m_reacs[j].rxn = r

RECURSIVE ReevaluateCopies(_, _)
\* The groups of a manager that, for the reactions of m_to_copy from
\* position j on, has a reverse group entry at slot index + N instead.
ReevaluateCopies(groups, j) ==
    IF j > Len(m_to_copy) THEN groups
    ELSE ReevaluateCopies(
            Groups_addRateCoefficient(groups, ReverseGroupOf(m_to_copy[j]),
                m_to_copy[j] + m_nr, Rxn(m_to_copy[j]).rateLaw),
            j + 1)

RECURSIVE RunUpdate(_, _, _, _, _)
\* The block left by the statements k.. of update on `state`, for a manager
\* with the given groups and copy list.
RunUpdate(k, groups, to_copy, state, blk) ==
    IF k > Len(update) THEN blk
    ELSE LET ev == logOfRateCoefficients(groups, 1, state, Mem(blk, << >>), mp_lnkf)
         IN  CASE update[k] = "evaluate" ->
                    RunUpdate(k + 1, ev.groups, to_copy, state, ev.mem.block)
               [] update[k] = "copy" ->
                    RunUpdate(k + 1, groups, to_copy, state,
                        copyRates(to_copy, 1, Mem(blk, << >>), mp_lnkf, mp_lnkb).block)
               [] update[k] = "correct" ->
                    RunUpdate(k + 1, groups, to_copy, state,
                        subtractLnKeq(groups, 1, m_ns, Mem(blk, << >>),
                                      mp_gibbs, mp_lnkb).block)

ZeroBlock == [k \in DOMAIN block |-> 0]

\* The ln(kf) and ln(kb) arrays of a block.
RateArrays(blk) == [k \in 0..(2 * m_nr - 1) |-> blk[mp_lnkf + k]]

\* C4: the copy shortcut is a pure optimisation: the arrays after update
\* are those of a manager that has a reverse group entry at slot index + N
\* for every reaction of the copy list and re-evaluates its rate law.
C4_CopyIsOptimisation ==
    Updated =>
        RateArrays(block) =
            RateArrays(RunUpdate(1, ReevaluateCopies(m_rate_groups, 1), << >>,
                                 thermo, ZeroBlock))

\* After an update of a manager whose copy list holds a reaction evaluated
\* at a temperature other than T, with a nonzero rate.
C4_Witness ==
    /\ Updated
    /\ \E j \in DOMAIN m_to_copy :
          /\ FwdSel(m_to_copy[j]) = "TeSelector"
          /\ thermo.Te # thermo.T
          /\ lnkf(m_to_copy[j]) # 0
          /\ lnkb(m_to_copy[j]) # lnkf(m_to_copy[j])

\* C5: after any sequence of updates the arrays depend only on the state of
\* the last call: they are the arrays one update on that state leaves in a
\* freshly constructed (zeroed) manager, so equal states give equal arrays.
C5_LastStateOnly ==
    Updated =>
        RateArrays(block) =
            RateArrays(RunUpdate(1, m_rate_groups, m_to_copy, thermo, ZeroBlock))

\* Two successive updates on the same state have returned, in a manager
\* with a copied and a re-evaluated reverse rate.
C5_Witness ==
    /\ Updated
    /\ repeated
    /\ m_to_copy # << >>
    /\ \E r \in Rxns : EntriesAt(r + m_nr) # {} /\ lnkb(r) # 0
    /\ \E j \in DOMAIN m_to_copy : lnkb(m_to_copy[j]) # lnkf(m_to_copy[j])

PhaseRank(phase) ==
    CASE phase = "evaluate" -> 1 [] phase = "copy" -> 2 [] phase = "correct" -> 3

\* Slots the evaluate phase has to write: one per group entry.
GroupSlots ==
    UNION { { mp_lnkf + m_rate_groups[k].m_rates[j].first :
                j \in DOMAIN m_rate_groups[k].m_rates } : k \in GroupKeys }

\* Slots the copy phase has to write.
CopySlots == { mp_lnkb + m_to_copy[j] : j \in DOMAIN m_to_copy }

WrittenBefore(k, phase, slot) ==
    \E j \in 1..(k - 1) :
        log[j] = [phase |-> phase, op |-> "w", slot |-> slot]

\* C6: within one update the accesses come in the order evaluate, copy,
\* correct; before any access of the correct phase every group entry has
\* been written by evaluate and every copy-list slot by copy.
C6_PhaseOrder ==
    /\ \A j, k \in DOMAIN log :
          j < k => PhaseRank(log[j].phase) <= PhaseRank(log[k].phase)
    /\ \A k \in DOMAIN log :
          log[k].phase = "correct" =>
              /\ \A slot \in GroupSlots : WrittenBefore(k, "evaluate", slot)
              /\ \A slot \in CopySlots : WrittenBefore(k, "copy", slot)

\* An update in which each of the three phases accessed the block.
C6_Witness ==
    /\ Updated
    /\ m_nr = 2
    /\ \A phase \in { "evaluate", "copy", "correct" } :
          \E k \in DOMAIN log : log[k].phase = phase /\ log[k].op = "w"
    /\ \E k \in DOMAIN log :
          log[k].phase = "correct" /\ log[k].slot \in CopySlots

\* C7: an irreversible reaction is recorded once in m_irr and nowhere on the
\* reverse side; no phase of update reads or writes its ln(kb) slot, which
\* keeps its initial zero.
C7_IrreversibleUntouched ==
    \A r \in Handled :
        ~Rxn(r).isReversible =>
            /\ Cardinality({ j \in DOMAIN m_irr : m_irr[j] = r }) = 1
            /\ EntriesAt(r + m_nr) = {}
            /\ CopiesOf(r) = {}
            /\ \A k \in GroupKeys :
                  \A j \in DOMAIN m_rate_groups[k].m_reacs :
                      m_rate_groups[k].m_reacs[j].rxn # r
            /\ pc \in { "idle", "update" } =>
                  /\ lnkb(r) = 0
                  /\ \A k \in DOMAIN log : log[k].slot # mp_lnkb + r

\* Two updates have returned in a manager with an irreversible reaction
\* beside a reversible one whose ln(kb) slot was written.
C7_Witness ==
    /\ Updated
    /\ repeated
    /\ \E r \in Rxns : ~Rxn(r).isReversible /\ lnkf(r) # 0
    /\ \E r \in Rxns : Rxn(r).isReversible /\ lnkb(r) # 0

CallsOf(r) == { k \in DOMAIN calls : calls[k].rxn = r }

\* The pair the table lists for a type, (T, T) for a type it does not list.
ListedOrDefault(t) ==
    IF TypeName(t) \in DOMAIN SelectRateLaws
    THEN SelectRateLaws[TypeName(t)]
    ELSE [ForwardGroup |-> "TSelector", ReverseGroup |-> "TSelector"]

\* C8: for every reaction type selectRate instantiates addRate exactly once,
\* with the selector pair the table lists for the type, and with (T, T) for
\* a type the table does not list.
C8_SelectorTotal ==
    \A r \in Handled :
        /\ Cardinality(CallsOf(r)) = 1
        /\ \A k \in CallsOf(r) :
              /\ calls[k].fwd = << Rxn(r).rateLaw.kind,
                                   ListedOrDefault(Rxn(r).type).ForwardGroup >>
              /\ calls[k].rev = << Rxn(r).rateLaw.kind,
                                   ListedOrDefault(Rxn(r).type).ReverseGroup >>
              /\ TypeName(Rxn(r).type) \notin DOMAIN SelectRateLaws =>
                    /\ calls[k].fwd[2] = "TSelector"
                    /\ calls[k].rev[2] = "TSelector"

\* A constructed manager whose first reaction reached selectRate<0> and
\* whose second reaction has a type the table does not list.
C8_Witness ==
    /\ pc = "idle"
    /\ m_nr = 2
    /\ Rxn(0).type = 0
    /\ TypeName(Rxn(1).type) \notin DOMAIN SelectRateLaws
    /\ Len(calls) = 2

\* Positions of the reactions whose rate law the manager does not classify.
Unclassified ==
    { k \in DOMAIN reactions : reactions[k].rateLaw.kind \notin ClassifiedKinds }

FirstUnclassified == CHOOSE k \in Unclassified : \A n \in Unclassified : k <= n

\* C9: with a reaction whose rate law is none of Arrhenius, constRate and
\* rationalExp the constructor fails with InvalidInputError at the first such
\* reaction, before the block is allocated: no manager exists, no array and
\* no group is left.  Only such a list makes it fail.
C9_ConstructionFails ==
    /\ pc = "failed" =>
          /\ error = "InvalidInputError"
          /\ Unclassified # {}
          /\ i = FirstUnclassified - 1
    /\ Unclassified # {} =>
          /\ pc \in { "construct", "failed" }
          /\ i < FirstUnclassified
          /\ block = << >>
          /\ mp_lnkf = NULL /\ mp_lnkb = NULL /\ mp_gibbs = NULL
          /\ pc = "failed" =>
                /\ m_rate_groups = EmptyGroups
                /\ m_to_copy = << >>
                /\ m_irr = << >>
    /\ Unclassified = {} => error = "" /\ pc # "failed"

\* The constructor failed at its second reaction, after the first was added.
C9_Witness ==
    /\ pc = "failed"
    /\ i = 1
    /\ Len(calls) = 1
    /\ Rxn(1).rateLaw.kind = "expRat33"

\* The weighted sum of one tracked entry at the last call: over its species
\* list concentration * weight, over its group list group concentration (the
\* scratch buffer p_g) * weight, and nothing else.
WeightedSum(entry) ==
    LET species == [j \in DOMAIN entry.m_effs |->
                       FMul(p_s[entry.m_effs[j].first], entry.m_effs[j].second)]
        groups  == [j \in DOMAIN entry.m_groupEffs |->
                       FMul(p_g[entry.m_groupEffs[j].first],
                            entry.m_groupEffs[j].second)]
    IN  SumOver(species, DOMAIN species) + SumOver(groups, DOMAIN groups)

RECURSIVE Weighted(_, _, _)
\* The rate of progress of reaction rxn, worth value, after the entries from
\* position j on have each multiplied it by their own sum.
Weighted(rxn, j, value) ==
    IF j > Len(m_effs) THEN value
    ELSE Weighted(rxn, j + 1,
            IF m_effs[j].m_rxn = rxn
            THEN FMul(value, WeightedSum(m_effs[j])) ELSE value)

\* The entry of the worked example: species weights 1 and 0.5, no group.
ExampleEntry(rxn) ==
    PartialThirdbodyEffs(rxn, << Eff(0, One), Eff(1, Half) >>, << >>)

ExampleConcentrations == [s \in 0..(NumSpecies - 1) |-> (s + 1) * One]

\* C10: multiplyThirdbodies multiplies the rate of progress of each tracked
\* entry by that entry's own sum, which starts at 0 and is the sum over its
\* species list of concentration * weight plus the sum over its group list of
\* group concentration * weight.  Concentrations 1 and 2 with weights 1 and
\* 0.5, no group and rate 5 give 10; an entry whose two lists are empty
\* leaves the rate 0.
C10_WeightedSum ==
    multiplied =>
        /\ \A rxn \in 0..(NumRates - 1) :
              p_r[rxn] = Weighted(rxn, 1, p_r_in[rxn])
        /\ \A rxn \in 0..(NumRates - 1) :
              ( /\ m_effs = << ExampleEntry(rxn) >>
                /\ p_s = ExampleConcentrations
                /\ p_r_in[rxn] = 5 * One ) => p_r[rxn] = 10 * One
        /\ \A j \in DOMAIN m_effs :
              (m_effs[j].m_effs = << >> /\ m_effs[j].m_groupEffs = << >>)
                  => p_r[m_effs[j].m_rxn] = 0

\* The worked example has run: rate 5 of reaction 0 became 10.
C10_Witness ==
    /\ multiplied
    /\ m_effs = << ExampleEntry(0) >>
    /\ p_s = ExampleConcentrations
    /\ p_r_in[0] = 5 * One
    /\ p_r[0] = 10 * One

\* The reaction indices registered through addReaction.
Registered == { m_effs[j].m_rxn : j \in DOMAIN m_effs }

\* C11: multiplyThirdbodies changes only the rates of progress of registered
\* reactions: the concentrations, the registered efficiency lists and the
\* rate of progress of every unregistered reaction are as before the call,
\* and the call is possible (raises no error) for every input in every state.
C11_Frame ==
    /\ [](\A conc \in Concentrations, rates \in RatesOfProgress :
              ENABLED Thirdbody_multiplyThirdbodies(conc, rates))
    /\ [][multiplied' =>
              /\ m_effs' = m_effs
              /\ p_s' = p_s_in'
              /\ \A rxn \in 0..(NumRates - 1) :
                    rxn \notin Registered => p_r'[rxn] = p_r_in'[rxn]]_vars

\* A call changed the rate of registered reaction 0 and left the rate of
\* unregistered reaction 1.
C11_Witness ==
    /\ multiplied
    /\ Registered = { 0 }
    /\ p_r[0] # p_r_in[0]
    /\ p_r[1] = p_r_in[1]
    /\ p_r[1] # 0

\* The weighted sum of the efficiencies given to one addReaction call, at the
\* concentrations of the last multiplyThirdbodies call.
SumOfCall(call) ==
    LET species == [j \in DOMAIN call.effs |->
                       FMul(p_s_in[call.effs[j].first], call.effs[j].second)]
        groups  == [j \in DOMAIN call.gEffs |->
                       FMul(p_g[call.gEffs[j].first], call.gEffs[j].second)]
    IN  SumOver(species, DOMAIN species) + SumOver(groups, DOMAIN groups)

\* The positions of the addReaction calls that named reaction rxn.
CallsNaming(rxn) == { j \in DOMAIN registered : registered[j].rxn = rxn }

RECURSIVE MultipliedBy(_, _)
\* value multiplied once by the sum of each call whose position is in S.
MultipliedBy(value, S) ==
    IF S = {} THEN value
    ELSE LET j == CHOOSE k \in S : \A n \in S : k <= n
         IN  MultipliedBy(FMul(value, SumOfCall(registered[j])), S \ {j})

\* C12: every addReaction call appends exactly one managed entry, in call
\* order, whether or not its reaction index was registered before: after k
\* calls there are k entries, and one multiplyThirdbodies call multiplies the
\* rate of progress of an index registered m times m times, once by the sum of
\* each of its entries.
C12_NoUniqueness ==
    /\ Len(m_effs) = Len(registered)
    /\ \A j \in DOMAIN registered :
          m_effs[j] = [m_rxn |-> registered[j].rxn,
                       m_effs |-> registered[j].effs,
                       m_groupEffs |-> registered[j].gEffs]
    /\ multiplied =>
          \A rxn \in 0..(NumRates - 1) :
              p_r[rxn] = MultipliedBy(p_r_in[rxn], CallsNaming(rxn))

\* Reaction 0 was registered twice with different lists, and one call
\* multiplied its rate by both sums, neither of them 0 or 1.
C12_Witness ==
    /\ multiplied
    /\ Len(registered) = 2
    /\ CallsNaming(0) = { 1, 2 }
    /\ registered[1] # registered[2]
    /\ SumOfCall(registered[1]) \notin { 0, One }
    /\ SumOfCall(registered[2]) \notin { 0, One }
    /\ p_r[0] = FMul(FMul(p_r_in[0], SumOfCall(registered[1])),
                     SumOfCall(registered[2]))
    /\ p_r[0] # FMul(p_r_in[0], SumOfCall(registered[2]))

\* The three regions of the storage block.
LnkfRegion == mp_lnkf..(mp_lnkf + m_nr - 1)

LnkbRegion == mp_lnkb..(mp_lnkb + m_nr - 1)

GibbsRegion == mp_gibbs..(mp_gibbs + m_ns - 1)

Constructed == pc \in { "idle", "update" }

\* C13: a constructed manager of nr reactions and ns species owns one block
\* of exactly 2*nr+ns entries, split into ln(kf) = [0, nr), ln(kb) =
\* [nr, 2nr) and gibbs = [2nr, 2nr+ns), pairwise disjoint and covering the
\* block; every entry is 0 from construction until the first update.
C13_BufferLayout ==
    Constructed =>
        /\ m_nr = Len(reactions) /\ m_ns = NumSpecies
        /\ DOMAIN block = 0..(2 * m_nr + m_ns - 1)
        /\ Cardinality(DOMAIN block) = 2 * m_nr + m_ns
        /\ LnkfRegion = 0..(m_nr - 1)
        /\ LnkbRegion = m_nr..(2 * m_nr - 1)
        /\ GibbsRegion = (2 * m_nr)..(2 * m_nr + m_ns - 1)
        /\ LnkfRegion \cap LnkbRegion = {}
        /\ LnkfRegion \cap GibbsRegion = {}
        /\ LnkbRegion \cap GibbsRegion = {}
        /\ LnkfRegion \cup LnkbRegion \cup GibbsRegion = DOMAIN block
        /\ (pc = "idle" /\ ~updated) => \A k \in DOMAIN block : block[k] = 0

\* A manager of two reactions is constructed and not yet updated.
C13_Witness ==
    /\ pc = "idle"
    /\ ~updated
    /\ m_nr = 2
    /\ Cardinality(DOMAIN block) = 2 * 2 + NumSpecies
    /\ \A k \in DOMAIN block : block[k] = 0

\* Every entry of every rate-law group: its group and its position there.
AllEntries ==
    UNION { { << k, j >> : j \in DOMAIN m_rate_groups[k].m_rates } :
            k \in GroupKeys }

SlotOf(e) == m_rate_groups[e[1]].m_rates[e[2]].first

\* Every order in which the entries can be evaluated.
EvaluationOrders ==
    { o \in [1..Cardinality(AllEntries) -> AllEntries] :
        \A a, b \in DOMAIN o : a # b => o[a] # o[b] }

RECURSIVE EvaluateInOrder(_, _, _)
\* The block after the entries order[n..] were evaluated one after another,
\* each at the temperature of its group's selector.
EvaluateInOrder(order, n, blk) ==
    IF n > Len(order) THEN blk
    ELSE LET e == order[n]
             v == getLnRate(m_rate_groups[e[1]].m_rates[e[2]].second,
                            getT(e[1][2], thermo))
         IN  EvaluateInOrder(order, n + 1,
                 [blk EXCEPT ![mp_lnkf + SlotOf(e)] = v])

\* C14: no two entries over all rate-law groups have the same output slot
\* and none has a slot in the gibbs region; so the block left by the
\* evaluate phase is the same for every order of evaluating the entries.
C14_DisjointSlots ==
    /\ [](/\ \A a, b \in AllEntries : a # b => SlotOf(a) # SlotOf(b)
          /\ \A e \in AllEntries : SlotOf(e) \in 0..(2 * m_nr - 1)
          /\ Constructed =>
                \A e \in AllEntries : mp_lnkf + SlotOf(e) \notin GibbsRegion)
    /\ [][(pc = "update" /\ step \in DOMAIN update
                         /\ update[step] = "evaluate") =>
              \A order \in EvaluationOrders :
                  block' = EvaluateInOrder(order, 1, block)]_vars

\* The evaluate phase has run over entries of three groups at three
\* different temperatures, one a reverse coefficient.
C14_Witness ==
    /\ pc = "update"
    /\ step = 2
    /\ Cardinality(AllEntries) >= 3
    /\ Cardinality({ e[1] : e \in AllEntries }) >= 3
    /\ Cardinality({ getT(e[1][2], thermo) : e \in AllEntries }) >= 3
    /\ \E e \in AllEntries : SlotOf(e) >= m_nr

\* The temperature a selector stands for in the state of the last update.
SelectedTemperature(sel) ==
    CASE sel = "TSelector"    -> thermo.T
      [] sel = "TeSelector"   -> thermo.Te
      [] sel = "ParkSelector" ->
            CHOOSE t \in 0..MaxTemp : t * t = thermo.T * thermo.Tv

\* Every entry of group k holds its law's value at the temperature m_t the
\* group was evaluated with.
SharedScalar(k, slots) ==
    \A j \in DOMAIN m_rate_groups[k].m_rates :
        LET e == m_rate_groups[k].m_rates[j]
        IN  e.first \in slots =>
                block[mp_lnkf + e.first] = getLnRate(e.second, m_rate_groups[k].m_t)

\* C15: after update(state) the ln(kf) slot of every reaction is its own
\* rate law at the one temperature of its type's forward selector: T for the
\* T selector, Te for the Te selector, sqrt(T*Tv) for the Park selector; all
\* members of a group are evaluated with the same temperature.
C15_ForwardRate ==
    /\ Updated =>
          /\ \A r \in Rxns :
                lnkf(r) = getLnRate(Rxn(r).rateLaw,
                                    SelectedTemperature(FwdSel(r)))
          /\ \A k \in GroupKeys :
                GroupExists(m_rate_groups[k]) =>
                    /\ m_rate_groups[k].m_t = SelectedTemperature(k[2])
                    /\ SharedScalar(k, Rxns)
    /\ (pc = "update" /\ step = 2) =>
          \A k \in GroupKeys : SharedScalar(k, 0..(2 * m_nr - 1))

\* After an update at three pairwise different T, Te and sqrt(T*Tv) of a
\* manager with a Park-selected and a Te-selected forward rate that depend on
\* the temperature.
C15_Witness ==
    /\ Updated
    /\ Cardinality({ thermo.T, thermo.Te, SelectedTemperature("ParkSelector") }) = 3
    /\ \E r1, r2 \in Rxns :
          /\ FwdSel(r1) = "ParkSelector"
          /\ FwdSel(r2) = "TeSelector"
          /\ lnkf(r1) # getLnRate(Rxn(r1).rateLaw, thermo.T)
          /\ lnkf(r2) # getLnRate(Rxn(r2).rateLaw, thermo.T)

\* The ln(kf) and ln(kb) arrays an update on `state` leaves when no other
\* call runs beside it.
AloneArrays(state) ==
    [k \in 0..(2 * m_nr - 1) |->
        IF k < m_nr
        THEN getLnRate(Rxn(k).rateLaw, getT(FwdSel(k), state))
        ELSE LET r == k - m_nr
                 t == getT(RevSel(r), state)
             IN  IF Rxn(r).isReversible
                 THEN getLnRate(Rxn(r).rateLaw, t) - LnKeqAt(r, t)
                 ELSE 0]

\* The weighted sum of the efficiencies of one addReaction call at the
\* concentrations conc, the group concentrations being those of conc.
SumOfCallAt(call, conc) ==
    LET species == [j \in DOMAIN call.effs |->
                       FMul(conc[call.effs[j].first], call.effs[j].second)]
        groups  == [j \in DOMAIN call.gEffs |->
                       FMul(SumOver(conc, SgroupMembers(call.gEffs[j].first)),
                            call.gEffs[j].second)]
    IN  SumOver(species, DOMAIN species) + SumOver(groups, DOMAIN groups)

RECURSIVE AloneRate(_, _, _)
\* value multiplied by the sums, at conc, of the calls with position in S.
AloneRate(value, S, conc) ==
    IF S = {} THEN value
    ELSE LET j == CHOOSE k \in S : \A n \in S : k <= n
         IN  AloneRate(FMul(value, SumOfCallAt(registered[j], conc)),
                       S \ {j}, conc)

\* The rates of progress multiplyThirdbodies(conc, rates) leaves when no
\* other call runs beside it.
AloneRates(conc, rates) ==
    [rxn \in 0..(NumRates - 1) |->
        AloneRate(rates[rxn], CallsNaming(rxn), conc)]

ReturnedUpdate(t) == callers[t].step = 0 /\ callers[t].result # << >>

ReturnedMultiply(t) == tbcallers[t].step = 0 /\ tbcallers[t].p_r # << >>

\* C16: update and multiplyThirdbodies are not reentrant.  A call during
\* which no other thread ran in the same manager returns the result of the
\* call run alone; interleaved calls with different inputs reach results
\* that neither call run alone produces (the state C16_Witness).
C16_NotReentrant ==
    /\ \A t \in Threads :
          (ReturnedUpdate(t) /\ callers[t].alone) =>
              callers[t].result = AloneArrays(callers[t].state)
    /\ \A t \in Threads :
          (ReturnedMultiply(t) /\ tbcallers[t].alone) =>
              tbcallers[t].p_r = AloneRates(tbcallers[t].p_s, tbcallers[t].p_r_in)

\* Two interleaved updates on different states returned arrays, and two
\* interleaved multiplyThirdbodies calls on different concentrations
\* returned rates of progress, that no call of either thread run alone
\* produces.
C16_Witness ==
    /\ \E t \in Threads :
          /\ ReturnedUpdate(t)
          /\ \A u \in Threads : callers[t].result # AloneArrays(ThreadState(u))
    /\ \E t \in Threads :
          /\ ReturnedMultiply(t)
          /\ \A u \in Threads :
                tbcallers[t].p_r #
                    AloneRates(ThreadConcentrations(u), ThreadRates(u))

\* The denominator of a rationalExp law at temperature t.
Denominator(law, t) ==
    law.c[6] + law.c[7] * t + law.c[8] * t * t + law.c[9] * t * t * t

\* Reaction r's law meets a zero denominator at the temperature of sel.
Degenerate(r, sel) ==
    /\ Rxn(r).rateLaw.kind = "rationalExp"
    /\ Denominator(Rxn(r).rateLaw, SelectedTemperature(sel)) = 0

\* C17: update raises no error for any state.  A rationalExp law that meets
\* a zero denominator leaves a non-finite value in the reaction's ln(kf)
\* slot and, when reversible, in its ln(kb) slot; the call still runs its
\* three phases to the end and the slots of the other reactions hold their
\* usual finite values.
C17_NonFinitePropagates ==
    /\ error = "" /\ pc # "failed"
    /\ pc = "update" =>
          /\ step \in DOMAIN update
          /\ update[step] \in { "evaluate", "copy", "correct" }
          /\ \A k \in DOMAIN block : block[k] \in Int
    /\ Updated =>
          \A r \in Rxns :
              /\ Degenerate(r, FwdSel(r)) => lnkf(r) = NonFinite
              /\ (Rxn(r).isReversible /\ Degenerate(r, RevSel(r)))
                     => lnkb(r) = NonFinite
              /\ ~Degenerate(r, FwdSel(r)) =>
                     /\ lnkf(r) # NonFinite
                     /\ lnkf(r) = RateAt(r, FwdSel(r))
              /\ (Rxn(r).isReversible /\ ~Degenerate(r, RevSel(r))) =>
                     /\ lnkb(r) # NonFinite
                     /\ lnkb(r) = RateAt(r, RevSel(r))
                                    - LnKeqAt(r, getT(RevSel(r), thermo))
              /\ ~Rxn(r).isReversible => lnkb(r) = 0

\* An update has returned in a manager of a degenerate reversible reaction
\* and a regular reversible reaction: the first has non-finite slots, the
\* second finite nonzero ones.
C17_Witness ==
    /\ Updated
    /\ m_nr = 2
    /\ Rxn(0).rateLaw = DegenerateLaw /\ Rxn(0).isReversible
    /\ lnkf(0) = NonFinite /\ lnkb(0) = NonFinite
    /\ Rxn(1).rateLaw.kind = "Arrhenius" /\ Rxn(1).isReversible
    /\ lnkf(1) \notin { 0, NonFinite } /\ lnkb(1) \notin { 0, NonFinite }

\* The Arrhenius object has been evaluated.
ArrheniusEvaluated == rl_law.kind = "Arrhenius" /\ rl_T # 0

\* C18: Arrhenius::getLnRate(lnT, invT) returns lnA + n*lnT - Ta*invT, Ta
\* the stored activation temperature: the exact value where the doubles hold
\* it, the nearest double to within the rounding of the three operations
\* otherwise.  With n = 0 and Ta = 0 the result is lnA exactly at every
\* temperature.
C18_ArrheniusValue ==
    ArrheniusEvaluated =>
        LET lnA   == rl_law.c[1]
            n     == rl_law.c[2]
            Ta    == rl_law.c[3]
            exact == lnA + n * Log(rl_T) - Ta * Inv(rl_T)
        IN  /\ Abs(lnA) + n * Log(rl_T) + Ta * Inv(rl_T) < Pow(2, MantBits)
                  => rl_lnRate = exact
            /\ Abs(rl_lnRate - exact) <= 2 * Ulp(Abs(lnA) + n * Log(rl_T), 1)
            /\ (n = 0 /\ Ta = 0) => rl_lnRate = lnA

\* A law with n = 0 and Ta = 0 and a large ln A was evaluated at two
\* different temperatures and returned ln A both times.
C18_Witness ==
    /\ ArrheniusEvaluated
    /\ rl_law.c[1] >= Pow(2, MantBits) /\ rl_law.c[2] = 0 /\ rl_law.c[3] = 0
    /\ rl_prev.T # 0 /\ rl_prev.T # rl_T
    /\ rl_lnRate = rl_law.c[1] /\ rl_prev.lnRate = rl_law.c[1]

\* The Arrhenius object, with n > 0 and activation temperature > 0, has been
\* evaluated at a temperature and then at a higher one.
TwoRisingEvaluations ==
    /\ ArrheniusEvaluated
    /\ rl_law.c[2] > 0 /\ rl_law.c[3] > 0
    /\ rl_prev.T # 0 /\ rl_prev.T < rl_T
    /\ Log(rl_prev.T) < Log(rl_T) /\ Inv(rl_prev.T) > Inv(rl_T)

\* C19 as stated: for n > 0 and activation temperature > 0 getLnRate at T1
\* is strictly less than getLnRate at T2 for any T1 < T2.
C19_StrictlyIncreasing ==
    TwoRisingEvaluations => rl_prev.lnRate < rl_lnRate

\* C19, amended: for n > 0 and activation temperature > 0 and T1 < T2,
\* getLnRate at T1 is not greater than getLnRate at T2, and strictly less
\* whenever the doubles hold the terms exactly; where the rounding of the
\* sum absorbs the increase the two results are equal.
C19_NonDecreasing ==
    TwoRisingEvaluations =>
        /\ rl_prev.lnRate <= rl_lnRate
        /\ Abs(rl_law.c[1]) + rl_law.c[2] * Log(rl_T)
               + rl_law.c[3] * Inv(rl_prev.T) < Pow(2, MantBits)
              => rl_prev.lnRate < rl_lnRate

\* A law with n > 0, activation temperature > 0 and a large ln A gave the
\* same double at a temperature and at a higher one.
C19_Witness ==
    /\ TwoRisingEvaluations
    /\ rl_prev.lnRate = rl_lnRate
    /\ rl_law.c[1] >= Pow(2, MantBits)

\* The two polynomials of the expRat33 object at its last temperature:
\* four fitted coefficients over three and a leading 1.
Numerator ==
    rl_law.c[1] + rl_law.c[2] * rl_T + rl_law.c[3] * rl_T * rl_T
        + rl_law.c[4] * rl_T * rl_T * rl_T

CubicDenominator ==
    rl_law.c[5] + rl_law.c[6] * rl_T + rl_law.c[7] * rl_T * rl_T
        + rl_T * rl_T * rl_T

Completed == o_pc = "returned" /\ missing = << >>

Occurs(seq, s) == \E k \in 1..Len(seq) : seq[k] = s

PosIn(seq, s) == CHOOSE k \in 1..Len(seq) : seq[k] = s

\* The map holds the name nm without level indices and without star.
PlainlyListed(nm) ==
    \E k \in 1..Len(m_expand_states) :
        /\ m_expand_states[k].first = energyLevel(nm, << >>)
        /\ m_expand_states[k].second = 0

\* The species the descriptor lists explicitly: those of a listed ground-state
\* name, and of them the one with that very name when the name is listed
\* plainly.
Listed(s) ==
    /\ Occurs(m_species_names, s.groundStateName)
    /\ PlainlyListed(s.groundStateName)
           => Species_name(s) = s.groundStateName

\* The order the descriptor gives two listed species: by the position of
\* their names, and by level under one name.
ListedBefore(x, y) ==
    \/ PosIn(m_species_names, x.groundStateName)
           < PosIn(m_species_names, y.groundStateName)
    \/ /\ x.groundStateName = y.groundStateName
       /\ energyLevel_less(energyLevelOf(x), energyLevelOf(y))

\* The three blocks of the output: the electron, the gases, the condensed.
Class(s) ==
    CASE s.type = "ELECTRON" -> "electron"
      [] s.type # "ELECTRON" /\ IsCondensed(s) -> "condensed"
      [] OTHER -> "gas"

ListedPairs ==
    { p \in Range(output) \X Range(output) :
        Listed(p[1]) /\ Listed(p[2]) /\ ListedBefore(p[1], p[2]) }

\* C21 as stated: after order completes with no missing species, any two
\* explicitly listed species stand in output in the order the descriptor
\* gives them, levels of one name ascending, whatever their type and phase.
C21_ListedOrder ==
    Completed =>
        \A p \in ListedPairs : PosIn(output, p[1]) < PosIn(output, p[2])

\* C21, amended: after order completes with no missing species, any two
\* explicitly listed species of the same block (both gases other than the
\* electron, or both condensed) stand in output in the order the descriptor
\* gives them, levels of one name ascending.
C21_ListedOrderWithinBlock ==
    Completed =>
        \A p \in ListedPairs :
            Class(p[1]) = Class(p[2])
                => PosIn(output, p[1]) < PosIn(output, p[2])

\* order has completed on a descriptor that lists the electron after a name
\* with levels, for an input that held those levels in descending order: the
\* levels stand in ascending order in output, after the electron.
C21_Witness ==
    /\ Completed
    /\ \E p \in ListedPairs :
           /\ p[1].groundStateName = p[2].groundStateName
           /\ PosIn(input_in, p[1]) > PosIn(input_in, p[2])
           /\ PosIn(output, p[1]) < PosIn(output, p[2])
           /\ \E e \in Range(output) :
                  /\ e.type = "ELECTRON"
                  /\ Listed(e)
                  /\ ListedBefore(p[2], e)
                  /\ PosIn(output, e) < PosIn(output, p[1])

\* The list a step of the last call of order left, << >> if the step did
\* not run.
ListAfter(st) ==
    IF \E k \in 1..Len(o_log) : o_log[k].step = st
    THEN o_log[CHOOSE k \in 1..Len(o_log) :
                   o_log[k].step = st
                   /\ \A j \in (k + 1)..Len(o_log) : o_log[j].step # st].list
    ELSE << >>

Electrons(seq) == { k \in 1..Len(seq) : seq[k].type = "ELECTRON" }

\* C22: after order completes with no missing species, if the input held a
\* species of type ELECTRON then output[0] is that electron.
C22_ElectronFirst ==
    (Completed /\ Electrons(input_in) # {}) =>
        /\ output # << >>
        /\ output[1].type = "ELECTRON"
        /\ Occurs(input_in, output[1])

\* order has completed for an input that held the electron behind another
\* species, on a descriptor that lists the electron last: output starts
\* with the electron and goes on with other species.
C22_Witness ==
    /\ Completed
    /\ \E k \in Electrons(input_in) : k > 1
    /\ m_species_names # << >>
    /\ m_species_names[Len(m_species_names)] = << "e" >>
    /\ Len(m_species_names) > 1
    /\ Len(output) > 1
    /\ output[1].type = "ELECTRON"

\* The condensed species of a list, in its order.
CondensedOf(seq) == SelectSeq(seq, IsCondensed)

\* C23: after order completes with no missing species, every condensed
\* species of output stands after every gas species, and the condensed
\* species are in the relative order they had in the list before the loop
\* that moves them to the end.
C23_CondensedLast ==
    Completed =>
        /\ \A j, k \in 1..Len(output) :
               (IsCondensed(output[j]) /\ ~IsCondensed(output[k])) => k < j
        /\ CondensedOf(output) = CondensedOf(ListAfter("electron"))

\* order has completed on a list that held two condensed species before a
\* gas species: both stand behind the gas in output, in the order they had.
C23_Witness ==
    /\ Completed
    /\ Len(CondensedOf(output)) >= 2
    /\ LET before == ListAfter("electron") IN
       \E j, k, g \in 1..Len(before) :
           /\ j < k /\ k < g
           /\ IsCondensed(before[j]) /\ IsCondensed(before[k])
           /\ ~IsCondensed(before[g])
           /\ PosIn(output, before[g]) < PosIn(output, before[j])
           /\ PosIn(output, before[j]) < PosIn(output, before[k])

\* The constructor is past its loop over the names, having read a complete
\* implicit rule and not one name.
RuleOnly ==
    /\ d_pc \in { "outer", "inner", "done", "crashed", "error" }
    /\ m_gases \/ m_solids \/ m_liquids
    /\ m_element_names # {}
    /\ m_species_names = << >>

\* C24: on a descriptor that consists only of an implicit rule the
\* construction completes without error and without stepping an iterator
\* before the first element of the empty level-expansion map.
C24_RuleOnlyConstructs ==
    RuleOnly => (d_pc \notin { "crashed", "error" } /\ ~underflow)

\* The names order looks for by name: those of the map's entries without
\* star, plain names and listed levels.
ListedLevelNames ==
    { energyLevel_name(m_expand_states[k].first) :
        k \in { j \in 1..Len(m_expand_states) : m_expand_states[j].second = 0 } }

\* Those of them that name no species of the input.
Absent ==
    { nm \in ListedLevelNames :
        \A k \in 1..Len(input_in) : Species_name(input_in[k]) # nm }

StepsRun == { o_log[k].step : k \in 1..Len(o_log) }

Separating ==
    \/ d_pc = "separate"
    \/ d_pc \in { "expand", "error" } /\ it = 1 /\ gsNames = {}

\* The white-space characters of the C locale that have a literal here.
SpaceCharacters == { " ", "\t", "\n", "\r", "\f" }

\* The name appended as number k is what stands between an opening
\* quotation mark and the closing one at position quoted[k].last, or the end
\* of the descriptor when the quotes are never closed.
BetweenQuotes(k) ==
    LET nm == m_species_names[k]
        last == quoted[k].last
    IN /\ last - Len(nm) - 1 >= 1
       /\ descriptor[last - Len(nm) - 1] = "\""
       /\ nm = SubSeq(descriptor, last - Len(nm), last - 1)
       /\ IF last <= Len(descriptor) THEN descriptor[last] = "\""
          ELSE in_quotes

\* The state machine stands outside quotes on a quotation mark with a name
\* under way.
QuoteInName ==
    /\ d_pc = "separate"
    /\ d_i < Len(descriptor)
    /\ ~in_quotes
    /\ descriptor[d_i + 1] = "\""
    /\ Len(name) > 0

\* C26: separateSpeciesNames has the two states inside and outside quotes;
\* every name it appends is non-empty; a name collected outside quotes holds
\* no white-space and no quotation mark; what stands between an opening and
\* a closing quotation mark is collected as one name, white-space included;
\* and a quotation mark met outside quotes with a name under way raises
\* InvalidInputError and appends nothing.
C26_SeparateNames ==
    /\ [](Separating =>
             /\ in_quotes \in BOOLEAN
             /\ Len(quoted) = Len(m_species_names)
             /\ \A k \in 1..Len(m_species_names) :
                    /\ m_species_names[k] # << >>
                    /\ ~quoted[k].quotes =>
                           \A j \in 1..Len(m_species_names[k]) :
                               m_species_names[k][j]
                                   \notin SpaceCharacters \cup { "\"" }
                    /\ quoted[k].quotes => BetweenQuotes(k))
    /\ [][QuoteInName =>
              /\ d_pc' = "error"
              /\ d_error' = "InvalidInputError"
              /\ m_species_names' = m_species_names]_vars

\* separateSpeciesNames has returned two names, one collected between
\* quotation marks with a blank in it and one collected outside quotes.
C26_Witness ==
    /\ d_pc = "expand" /\ it = 1 /\ gsNames = {}
    /\ \E j, k \in 1..Len(m_species_names) :
           /\ quoted[j].quotes
           /\ \E n \in 1..Len(m_species_names[j]) : m_species_names[j][n] = " "
           /\ quoted[j].last <= Len(descriptor)
           /\ ~quoted[k].quotes

\* The pairs << j, k >> of entries of a level map with the same ground-state
\* name, the index list of entry j a prefix of that of entry k.
PrefixPairs(map) ==
    { p \in (1..Len(map)) \X (1..Len(map)) :
        LET short == map[p[1]].first
            long == map[p[2]].first
        IN /\ p[1] # p[2]
           /\ short.m_groundStateName = long.m_groundStateName
           /\ Len(short.m_indices) <= Len(long.m_indices)
           /\ \A n \in 1..Len(short.m_indices) :
                  short.m_indices[n] = long.m_indices[n] }

\* The longer entry says nothing the shorter one does not: it has no star,
\* and the stars of the shorter one stand for its extra indices.
RedundantBeside(long, short) ==
    /\ long.second = 0
    /\ short.second = Len(long.first.m_indices) - Len(short.first.m_indices)

\* C27: the scan of the constructor resolves every pair of entries with the
\* same ground-state name of which one's index list is a prefix of the
\* other's: an entry is erased only as the longer, redundant entry of such
\* a pair, InvalidInputError of the scan is raised only on such a pair that
\* is not redundant, and after a successful construction no such pair is
\* left.
C27_NoPrefixPairs ==
    /\ [](d_pc = "done" => PrefixPairs(m_expand_states) = {})
    /\ [][(d_pc = "inner" /\ m_expand_states' # m_expand_states) =>
              \E p \in PrefixPairs(m_expand_states) :
                  /\ RedundantBeside(m_expand_states[p[2]], m_expand_states[p[1]])
                  /\ Len(m_expand_states') = Len(m_expand_states) - 1
                  /\ \A k \in 1..Len(m_expand_states) :
                         k # p[2] => Occurs(m_expand_states', m_expand_states[k])
                  /\ d_pc' # "error"]_vars
    /\ [][(d_pc = "inner" /\ d_pc' = "error") =>
              \E p \in PrefixPairs(m_expand_states) :
                  ~RedundantBeside(m_expand_states[p[2]], m_expand_states[p[1]])]_vars

\* The keys the names of the descriptor stand for.
ListedKeys ==
    { energyLevel(ParseName(nm).gsName, ParseName(nm).indices) :
        nm \in Range(tokenize(descriptor, << " " >>, TRUE)) }

\* A construction has succeeded in which the scan erased a redundant entry
\* and kept two entries of one ground-state name.
C27_Witness ==
    /\ d_pc = "done"
    /\ Cardinality(ListedKeys) > Len(m_expand_states)
    /\ \E j, k \in 1..Len(m_expand_states) :
           /\ j # k
           /\ m_expand_states[j].first.m_groundStateName
                  = m_expand_states[k].first.m_groundStateName

\* How often s occurs in seq.
Count(seq, s) == Cardinality({ k \in 1..Len(seq) : seq[k] = s })

\* C28: when order has completed with missing empty, output holds exactly
\* the species input held on entry, each as often as there, and input is
\* empty.
C28_Permutation ==
    Completed =>
        /\ input = << >>
        /\ Len(output) = Len(input_in)
        /\ \A s \in Range(input_in) \cup Range(output) :
               Count(output, s) = Count(input_in, s)

\* An order has completed that placed a listed species, appended the rest
\* of three species in another order than they came in, and replaced an
\* earlier content of output.
C28_Witness ==
    /\ Completed
    /\ Len(input_in) = MaxInput
    /\ Len(ListAfter("levels")) \in 1..(MaxInput - 1)
    /\ Len(ListAfter("remainder")) = MaxInput
    /\ output # input_in
    /\ output_in # << >>

\* C29: when order has returned, no name occurs more than once in missing:
\* each explicitly listed name that input lacks is reported exactly once.
C29_ReportedOnce ==
    o_pc = "returned" =>
        /\ \A j, k \in 1..Len(missing) : j # k => missing[j] # missing[k]
        /\ \A nm \in Range(m_species_names) :
               (PlainlyListed(nm)
                /\ ~\E k \in 1..Len(input_in) : Species_name(input_in[k]) = nm)
                   => Count(missing, nm) = 1


====
